---------------------------- MODULE Spec2Model ----------------------------
(***************************************************************************)
(* Clipboard history service: the monitor that polls the host pasteboard,  *)
(* the consumer task that classifies, encrypts, deduplicates and stores    *)
(* each change, the SQLite store (live tables and trash tables), and the   *)
(* UI's own connection to the same store.                                  *)
(*                                                                         *)
(* A text is a sequence of characters, each a string naming one character; *)
(* a character is one byte wide in UTF-8 unless it is in TwoByteChars.  An *)
(* Option<T> is a sequence of length 0 (None) or 1 (Some).                 *)
(***************************************************************************)
EXTENDS Integers, Sequences, FiniteSets, TLC

(***************************************************************************)
(* Bounds of the model                                                     *)
(***************************************************************************)
\* Number of writes the host makes to the pasteboard.
MaxCopies == 2
\* Number of store statements (or encrypt calls) that fail in one run.
MaxFaults == 1

(***************************************************************************)
(* Text primitives (Rust str)                                              *)
(***************************************************************************)
None == << >>
Some(v) == << v >>

Rep(c, n) == [i \in 1..n |-> c]

\* U+00E9 (e with acute accent) is two bytes in UTF-8: C3 A9
TwoByteChars == {"U+00E9"}

\* U+FFFD, the replacement character, is three bytes in UTF-8: EF BF BD
ReplacementChar == "U+FFFD"

\* char::len_utf8
Utf8Len(c) ==
    IF c \in TwoByteChars THEN 2 ELSE IF c = ReplacementChar THEN 3 ELSE 1

\* str::len: the length in bytes (the sum of the characters' widths, added
\* up by halves)
RECURSIVE ByteLen(_)
ByteLen(s) ==
    IF Len(s) = 0 THEN 0
    ELSE IF Len(s) = 1 THEN Utf8Len(s[1])
    ELSE LET h == Len(s) \div 2 IN
         ByteLen(SubSeq(s, 1, h)) + ByteLen(SubSeq(s, h + 1, Len(s)))

\* str::chars().count()
CharCount(s) == Len(s)

\* char::is_whitespace, on the characters of the model's alphabet
IsWhitespace(c) == c \in {" ", "\n", "\t", "\r"}

RECURSIVE TrimStart(_)
TrimStart(s) ==
    IF s # << >> /\ IsWhitespace(Head(s)) THEN TrimStart(Tail(s)) ELSE s

RECURSIVE TrimEnd(_)
TrimEnd(s) ==
    IF s # << >> /\ IsWhitespace(s[Len(s)])
    THEN TrimEnd(SubSeq(s, 1, Len(s) - 1))
    ELSE s

\* str::trim
Trim(s) == TrimEnd(TrimStart(s))

\* str::contains(char)
ContainsChar(s, c) == \E i \in 1..Len(s) : s[i] = c

\* str::starts_with
StartsWith(s, p) == Len(p) <= Len(s) /\ SubSeq(s, 1, Len(p)) = p

\* str::contains(&str)
Contains(s, p) ==
    \E i \in 0..(Len(s) - Len(p)) : SubSeq(s, i + 1, i + Len(p)) = p

\* str::matches(char).count()
CountChar(s, c) == Cardinality({ i \in 1..Len(s) : s[i] = c })

\* str::lines: split at "\n", a trailing "\r" of a line dropped, no empty
\* last line after a final "\n"
StripCr(l) ==
    IF l # << >> /\ l[Len(l)] = "\r" THEN SubSeq(l, 1, Len(l) - 1) ELSE l

RECURSIVE Lines(_)
Lines(s) ==
    IF s = << >> THEN << >>
    ELSE IF ContainsChar(s, "\n")
         THEN LET n == CHOOSE i \in 1..Len(s) :
                          s[i] = "\n" /\ \A j \in 1..(i - 1) : s[j] # "\n"
              IN << StripCr(SubSeq(s, 1, n - 1)) >> \o Lines(SubSeq(s, n + 1, Len(s)))
         ELSE << s >>

\* [&str]::join(sep)
RECURSIVE Join(_, _)
Join(ls, sep) ==
    IF ls = << >> THEN << >>
    ELSE IF Len(ls) = 1 THEN ls[1]
    ELSE ls[1] \o sep \o Join(Tail(ls), sep)

UpperLetters == << "A","B","C","D","E","F","G","H","I","J","K","L","M",
                   "N","O","P","Q","R","S","T","U","V","W","X","Y","Z" >>
LowerLetters == << "a","b","c","d","e","f","g","h","i","j","k","l","m",
                   "n","o","p","q","r","s","t","u","v","w","x","y","z" >>

\* char::to_lowercase on the model's alphabet
LowerChar(c) ==
    IF \E i \in 1..26 : UpperLetters[i] = c
    THEN LowerLetters[CHOOSE i \in 1..26 : UpperLetters[i] = c]
    ELSE c

\* str::to_lowercase
ToLowercase(s) == [i \in 1..Len(s) |-> LowerChar(s[i])]

\* char::is_ascii_digit
IsAsciiDigit(c) == c \in {"0","1","2","3","4","5","6","7","8","9"}

\* str::is_char_boundary(n): byte offset n falls between two characters
IsCharBoundary(s, n) == \E k \in 0..Len(s) : ByteLen(SubSeq(s, 1, k)) = n

\* &s[..n]: the characters before byte offset n (n a character boundary)
ByteSlice(s, n) ==
    SubSeq(s, 1, CHOOSE k \in 0..Len(s) : ByteLen(SubSeq(s, 1, k)) = n)

\* A byte of known value: [v |-> its name]
Raw(b) == [v |-> b]

\* str::as_bytes: the UTF-8 bytes
Utf8(c) ==
    IF c = "U+00E9" THEN << Raw("xC3"), Raw("xA9") >>
    ELSE IF c = ReplacementChar THEN << Raw("xEF"), Raw("xBF"), Raw("xBD") >>
    ELSE << Raw(c) >>

\* The bytes of the model that are no ASCII character
HighBytes == { "xC3", "xA9", "xEF", "xBF", "xBD", "x89", "r0", "r1", "black", "white" }

\* String::from_utf8_lossy: the text the bytes spell, with U+FFFD for every
\* byte that is part of no well-formed character.  A byte of a ciphertext or
\* of a tag is taken to be such a byte.
RECURSIVE FromUtf8Lossy(_)
FromUtf8Lossy(bytes) ==
    IF bytes = << >> THEN << >>
    ELSE IF Len(bytes) >= 2 /\ bytes[1] = Raw("xC3") /\ bytes[2] = Raw("xA9")
         THEN << "U+00E9" >> \o FromUtf8Lossy(SubSeq(bytes, 3, Len(bytes)))
    ELSE IF Len(bytes) >= 3 /\ SubSeq(bytes, 1, 3) = << Raw("xEF"), Raw("xBF"), Raw("xBD") >>
         THEN << ReplacementChar >> \o FromUtf8Lossy(SubSeq(bytes, 4, Len(bytes)))
    ELSE IF DOMAIN bytes[1] = {"v"} /\ bytes[1].v \notin HighBytes
         THEN << bytes[1].v >> \o FromUtf8Lossy(Tail(bytes))
    ELSE << ReplacementChar >> \o FromUtf8Lossy(Tail(bytes))

RECURSIVE AsBytes(_)
AsBytes(s) ==
    IF Len(s) = 0 THEN << >>
    ELSE IF Len(s) = 1 THEN Utf8(s[1])
    ELSE LET h == Len(s) \div 2 IN
         AsBytes(SubSeq(s, 1, h)) \o AsBytes(SubSeq(s, h + 1, Len(s)))

\* u32 Display: the decimal digits of n
Digits == << "0","1","2","3","4","5","6","7","8","9" >>
RECURSIVE DecStr(_)
DecStr(n) ==
    IF n < 10 THEN << Digits[n + 1] >>
    ELSE DecStr(n \div 10) \o << Digits[(n % 10) + 1] >>

(***************************************************************************)
(* Classifier (storage/processor.rs)                                       *)
(***************************************************************************)
MAX_PREVIEW == 200

\* DataProcessor::is_url
is_url(text) ==
    LET trimmed == Trim(text) IN
    \/ StartsWith(trimmed, << "h","t","t","p",":","/","/" >>)
    \/ StartsWith(trimmed, << "h","t","t","p","s",":","/","/" >>)
    \/ StartsWith(trimmed, << "f","t","p",":","/","/" >>)

\* DataProcessor::detect_text_type
detect_text_type(text, uti_types) ==
    LET hit(u) == Contains(u, << "r","t","f" >>) \/ Contains(u, << "h","t","m","l" >>)
        first == CHOOSE i \in 1..Len(uti_types) :
                    hit(uti_types[i]) /\ \A j \in 1..(i - 1) : ~hit(uti_types[j])
    IN
    IF \E i \in 1..Len(uti_types) : hit(uti_types[i])
    THEN (IF Contains(uti_types[first], << "r","t","f" >>) THEN "rtf" ELSE "html")
    ELSE IF is_url(text) THEN "url"
    ELSE IF StartsWith(text, << "{","\\","r","t","f" >>) THEN "rtf"
    ELSE IF \/ StartsWith(TrimStart(text), << "<","!","D","O","C","T","Y","P","E" >>)
            \/ StartsWith(TrimStart(text), << "<","h","t","m","l" >>)
            \/ Contains(text, << "<","/","h","t","m","l",">" >>)
         THEN "html"
    ELSE "text"

\* The normalisation of generate_text_preview: trim, trim each line, drop the
\* empty lines, join with one space.
CleanedText(text) ==
    LET ls == Lines(Trim(text))
        trimmed == [i \in 1..Len(ls) |-> Trim(ls[i])]
        kept == SelectSeq(trimmed, LAMBDA l : l # << >>)
    IN Join(kept, << " " >>)

\* DataProcessor::generate_text_preview.  &cleaned[..MAX_PREVIEW] panics when
\* byte offset MAX_PREVIEW is not a character boundary.
generate_text_preview(text) ==
    LET cleaned == CleanedText(text) IN
    IF ByteLen(cleaned) <= MAX_PREVIEW
    THEN [panic |-> FALSE, value |-> cleaned]
    ELSE IF IsCharBoundary(cleaned, MAX_PREVIEW)
         THEN [panic |-> FALSE,
               value |-> ByteSlice(cleaned, MAX_PREVIEW) \o << ".", ".", "." >>]
         ELSE [panic |-> TRUE, value |-> << >>]

SpecialChars ==
    { "!","@","#","$","%","^","&","*","(",")","_","+","-","=","[","]",
      "{","}","|",";",":",",",".","<",">","?" }

sensitive_prefixes ==
    << << "s","k","-" >>,
       << "g","h","p","_" >>,
       << "g","h","o","_" >>,
       << "g","i","t","h","u","b","_","p","a","t","_" >>,
       << "g","l","p","a","t","-" >>,
       << "A","K","I","A" >>,
       << "y","a","2","9","." >>,
       << "A","I","z","a" >> >>

\* DataProcessor::detect_sensitive_content
detect_sensitive_content(text) ==
    LET text_lower == ToLowercase(text) IN
    \* Pattern 1: password-like
    \/ /\ ByteLen(text) >= 8
       /\ ByteLen(text) <= 128
       /\ ~ContainsChar(text, " ")
       /\ \E i \in 1..Len(text) : text[i] \in SpecialChars
       /\ \E i \in 1..Len(text) : IsAsciiDigit(text[i])
    \* Pattern 2: API keys and tokens
    \/ \E k \in 1..Len(sensitive_prefixes) : StartsWith(text, sensitive_prefixes[k])
    \* Pattern 3: JWT tokens
    \/ StartsWith(text, << "e","y","J" >>) /\ CountChar(text, ".") = 2
    \* Pattern 4: private keys
    \/ Contains(text, << "B","E","G","I","N"," ","P","R","I","V","A","T","E"," ","K","E","Y" >>)
    \/ Contains(text, << "B","E","G","I","N"," ","R","S","A"," ","P","R","I","V","A","T","E"," ","K","E","Y" >>)
    \/ Contains(text, << "B","E","G","I","N"," ","O","P","E","N","S","S","H"," ","P","R","I","V","A","T","E"," ","K","E","Y" >>)
    \* Pattern 5: environment-like variables
    \/ /\ \/ Contains(text_lower, << "p","a","s","s","w","o","r","d" >>)
          \/ Contains(text_lower, << "s","e","c","r","e","t" >>)
          \/ Contains(text_lower, << "a","p","i","_","k","e","y" >>)
          \/ Contains(text_lower, << "a","p","i","k","e","y" >>)
          \/ Contains(text_lower, << "t","o","k","e","n" >>)
       /\ ContainsChar(text, "=")

\* DataProcessor::create_metadata: the JSON document {"uti_types":[...]}
create_metadata(uti_types) == [uti_types |-> uti_types]

\* DataProcessor::process_text.  A panic of generate_text_preview unwinds
\* through process_text.
process_text(text, uti_types) ==
    LET pv == generate_text_preview(text) IN
    IF pv.panic
    THEN [panic |-> TRUE]
    ELSE [panic |-> FALSE,
          data_type |-> detect_text_type(text, uti_types),
          blob |-> AsBytes(text),
          preview_text |-> Some(pv.value),
          is_sensitive |-> detect_sensitive_content(text),
          metadata |-> Some(create_metadata(uti_types))]

\* DataProcessor::detect_image_format
detect_image_format(uti) ==
    IF Contains(uti, << "t","i","f","f" >>) THEN "TIFF"
    ELSE IF Contains(uti, << "j","p","e","g" >>) \/ Contains(uti, << "j","p","g" >>) THEN "JPEG"
    ELSE IF Contains(uti, << "p","n","g" >>) THEN "PNG"
    ELSE IF Contains(uti, << "g","i","f" >>) THEN "GIF"
    ELSE IF Contains(uti, << "b","m","p" >>) THEN "BMP"
    ELSE "Unknown"

\* DataProcessor::process_image.  Raster bytes are the record
\* [decodable, width, height, pixels]: image::load_from_memory fails on bytes
\* that are no image; the blob is the PNG encoding of the decoded picture,
\* its dimensions followed by its pixel data.
process_image(image_data, uti_type) ==
    IF ~image_data.decodable
    THEN [ok |-> FALSE]
    ELSE [ok |-> TRUE,
          data_type |-> "image",
          blob |-> AsBytes(<< "x89", "P", "N", "G" >> \o DecStr(image_data.width)
                           \o << "x" >> \o DecStr(image_data.height)
                           \o image_data.pixels),
          preview_text |-> Some(DecStr(image_data.width) \o << "x" >>
                                \o DecStr(image_data.height)
                                \o << " ","i","m","a","g","e" >>),
          is_sensitive |-> FALSE,
          metadata |-> Some([width |-> image_data.width,
                             height |-> image_data.height,
                             format |-> detect_image_format(uti_type)])]

(***************************************************************************)
(* Crypto envelope (storage/encryption.rs)                                 *)
(*                                                                         *)
(* ChaCha20-Poly1305 is modelled symbolically.  Ciphertext byte i is the   *)
(* plaintext byte combined with keystream byte i of (key, nonce); the tag  *)
(* is TAG_SIZE bytes of a MAC over (key, nonce, ciphertext).               *)
(***************************************************************************)
NONCE_SIZE == 12
TAG_SIZE == 16

\* Values OsRng.fill_bytes can give every byte of a nonce
RandomBytes == {"r0", "r1"}
Nonces == { [i \in 1..NONCE_SIZE |-> Raw(b)] : b \in RandomBytes }

\* The key of encryption.key
MasterKey == "key0"

Seal(key, nonce, plaintext) ==
    [i \in 1..Len(plaintext) |->
        [v |-> plaintext[i].v, key |-> key, nonce |-> nonce, pos |-> i]]

Mac(key, nonce, ct) ==
    [j \in 1..TAG_SIZE |-> [mac |-> j, key |-> key, nonce |-> nonce, over |-> ct]]

\* Encrypt with the nonce OsRng drew set aside for a constant one
EncryptFixedNonce(key, nonce, plaintext) ==
    LET zero == [i \in 1..NONCE_SIZE |-> Raw("r0")]
        ct == Seal(key, zero, plaintext)
    IN zero \o ct \o Mac(key, zero, ct)

\* Encrypt with the plaintext sealed from its second byte on
EncryptTail(key, nonce, plaintext) ==
    LET ct == Seal(key, nonce, SubSeq(plaintext, 2, Len(plaintext))) IN
    nonce \o ct \o Mac(key, nonce, ct)

\* Encryptor::encrypt with the nonce OsRng drew: nonce || ciphertext || tag
Encrypt(key, nonce, plaintext) ==
    LET ct == Seal(key, nonce, plaintext) IN
    nonce \o ct \o Mac(key, nonce, ct)

\* Decrypt that does not verify the tag
DecryptUnverified(key, encrypted) ==
    IF Len(encrypted) < NONCE_SIZE
    THEN [ok |-> FALSE, err |-> "Invalid encrypted data: too short"]
    ELSE
      LET rest == SubSeq(encrypted, NONCE_SIZE + 1, Len(encrypted))
          ct == SubSeq(rest, 1, Len(rest) - TAG_SIZE)
      IN
      IF Len(rest) >= TAG_SIZE
      THEN [ok |-> TRUE, plaintext |-> [i \in 1..Len(ct) |-> Raw(ct[i].v)]]
      ELSE [ok |-> FALSE, err |-> "Decryption failed"]

\* Encryptor::decrypt
Decrypt(key, encrypted) ==
    IF Len(encrypted) < NONCE_SIZE
    THEN [ok |-> FALSE, err |-> "Invalid encrypted data: too short"]
    ELSE
      LET nonce == SubSeq(encrypted, 1, NONCE_SIZE)
          rest == SubSeq(encrypted, NONCE_SIZE + 1, Len(encrypted))
          ct == SubSeq(rest, 1, Len(rest) - TAG_SIZE)
          tag == SubSeq(rest, Len(rest) - TAG_SIZE + 1, Len(rest))
      IN
      IF Len(rest) >= TAG_SIZE /\ tag = Mac(key, nonce, ct)
      THEN [ok |-> TRUE, plaintext |-> [i \in 1..Len(ct) |-> Raw(ct[i].v)]]
      ELSE [ok |-> FALSE, err |-> "Decryption failed"]

(***************************************************************************)
(* Host pasteboard contents                                                *)
(***************************************************************************)
Utf8PlainText == << "p","u","b","l","i","c",".","u","t","f","8","-",
                    "p","l","a","i","n","-","t","e","x","t" >>
PublicTiff == << "p","u","b","l","i","c",".","t","i","f","f" >>
PublicFileUrl == << "p","u","b","l","i","c",".","f","i","l","e","-","u","r","l" >>

NoteA == << "n","o","t","e"," ","A" >>
ApiKey == << "s","k","-","1","2","3","4","5","6","7","8","9","0" >>
\* 199 one-byte characters, then a two-byte character over byte offset 200
LongAccented == Rep("a", MAX_PREVIEW - 1) \o << "U+00E9", "b" >>

TextContent(t) == [text |-> Some(t), image |-> None, types |-> << Utf8PlainText >>]
ImageContent(d) ==
    [text |-> None, image |-> Some([data |-> d, uti |-> PublicTiff]),
     types |-> << PublicTiff >>]

\* What the host may hold: plain text, a credential, a long text with a
\* multi-byte character, a picture, bytes tagged as a picture that do not
\* decode, and a file reference (neither text nor raster data).
Contents ==
    { TextContent(NoteA),
      TextContent(ApiKey),
      TextContent(LongAccented),
      ImageContent([decodable |-> TRUE, width |-> 2, height |-> 3,
                    pixels |-> << "black" >>]),
      ImageContent([decodable |-> FALSE, width |-> 0, height |-> 0,
                    pixels |-> << >>]),
      [text |-> None, image |-> None, types |-> << PublicFileUrl >>] }

\* Two pictures of the same dimensions with different pixels
SameSizeImages ==
    { ImageContent([decodable |-> TRUE, width |-> 2, height |-> 3,
                    pixels |-> << px >>]) : px \in {"black", "white"} }

EmptyContent == [text |-> None, image |-> None, types |-> << >>]

\* ClipboardMonitor::get_image
get_image(content) ==
    IF content.image = None THEN None
    ELSE Some(<< content.image[1].data, content.image[1].uti >>)

\* ClipboardMonitor::get_string
get_string(content) == content.text

(***************************************************************************)
(* State                                                                   *)
(***************************************************************************)
VARIABLES
    pasteboard,        \* NSPasteboard: [changeCount, content]
    monitor,           \* ClipboardMonitor: [last_change_count, running]
    channel,           \* mpsc::unbounded_channel: [queue, rx_open]
    consumer,          \* the consumer loop of main: its position and locals
    clipboard_items,   \* table clipboard_items
    clipboard_data,    \* table clipboard_data
    deleted_items,     \* table deleted_items
    deleted_data,      \* table deleted_data
    sqlite_sequence,   \* AUTOINCREMENT counters, one per table
    now,               \* chrono::Utc::now().timestamp(); it stands still here
    faults,            \* statements and encrypt calls that failed so far
    emitted,           \* history: what the monitor passed to tx.send
    received,          \* history: the change counts rx.recv returned
    plaintexts,        \* history: per item id, what the consumer was storing
    main_thread,       \* the main thread: start-up passes, then the UI handlers
    instances,         \* the processes started on the data directory
    data_dir,          \* instance.lock and encryption.key in the data directory
    calls,             \* history: calls of the Encryptor and of the classifier,
                       \* each with its arguments and what it returned
    history,           \* ClipboardHistory: [items, max_items], None before new
    popup              \* PopupWindow: [items, selected_index, visible]

hostVars == << pasteboard >>
storeVars == << clipboard_items, clipboard_data, deleted_items, deleted_data,
                sqlite_sequence >>
vars == << pasteboard, monitor, channel, consumer, clipboard_items,
           clipboard_data, deleted_items, deleted_data, sqlite_sequence,
           now, faults, emitted, received, plaintexts, main_thread,
           instances, data_dir, calls, history, popup >>
\* What the steps of the pipeline leave alone
osVars == << instances, data_dir, calls, history, popup >>
\* What the calls made on their own leave alone
uiVars == << history, popup >>

InitialChangeCount == 0

NoProcessed ==
    [data_type |-> "", blob |-> << >>, preview_text |-> None,
     is_sensitive |-> FALSE, metadata |-> None]

\* The consumer between two events
IdleConsumer ==
    [pc |-> "recv",
     processed |-> NoProcessed,
     blob_data |-> << >>,
     is_encrypted |-> FALSE,
     encrypt_failed |-> FALSE,
     matches |-> << >>,
     next |-> 1,
     prev_copy_count |-> 0,
     blob_id |-> 0,
     dedup_result |-> "none",
     matching |-> {},
     items_before |-> {},
     blobs_before |-> {}]

NoResult == [op |-> "none", ok |-> TRUE, count |-> 0]

\* The main thread in the run loop, no handler running
IdleMain ==
    [pc |-> "idle",
     retention_days |-> 0,
     now |-> 0,
     cutoff |-> 0,
     blob_ids |-> << >>,
     deleted |-> 0,
     snapshot |-> << >>,
     result |-> NoResult,
     starts |-> 0]

\* PopupWindow::new: no items loaded, the first line selected, not shown
ClosedPopup == [items |-> << >>, selected_index |-> 0, visible |-> FALSE]

\* The processes that may be started on one data directory
Procs == {"p1", "p2"}

\* A process that was not started yet
NotStarted ==
    [pc |-> "off", encryptor |-> None, encryptor_for_ui |-> None, store_ops |-> {}]

(***************************************************************************)
(* clipboard.db as a file: schema and config table (storage/database.rs)   *)
(***************************************************************************)
SCHEMA_VERSION == 1

ConfigKeys == { "schema_version", "retention_days", "polling_interval_ms" }

\* No file yet
NoDatabase ==
    [exists |-> FALSE, copy_count_column |-> FALSE,
     config |-> [k \in ConfigKeys |-> None]]

\* The copy_count of a row of a clipboard_items table that has no such
\* column
NoCopyCount == 0

\* set_config_default with INSERT OR REPLACE in place of INSERT OR IGNORE
set_config_replace(config, key, value) ==
    [config EXCEPT ![key] = Some(value)]

\* Database::set_config_default: INSERT OR IGNORE INTO config
set_config_default(config, key, value) ==
    IF config[key] = None THEN [config EXCEPT ![key] = Some(value)] ELSE config

\* The statements of initialize_schema that change the file, in order
SchemaStatements ==
    << "create_tables", "add_copy_count", "schema_version", "retention_days",
       "polling_interval_ms" >>

\* The file after one statement of initialize_schema
AfterStatement(db, statement) ==
    IF statement = "create_tables" THEN [db EXCEPT !.exists = TRUE]
    ELSE IF statement = "add_copy_count" THEN [db EXCEPT !.copy_count_column = TRUE]
    ELSE IF statement = "schema_version"
         THEN [db EXCEPT !.config = set_config_replace(@, "schema_version",
                                                        DecStr(SCHEMA_VERSION))]
    ELSE IF statement = "retention_days"
         THEN [db EXCEPT !.config = set_config_default(@, "retention_days", << "7" >>)]
    ELSE [db EXCEPT !.config = set_config_default(@, "polling_interval_ms",
                                                  << "5", "0", "0" >>)]

\* Database::initialize_schema through its first n statements
RECURSIVE initialize_schema(_, _)
initialize_schema(db, n) ==
    IF n = 0 THEN db
    ELSE AfterStatement(initialize_schema(db, n - 1), SchemaStatements[n])

\* ALTER TABLE clipboard_items ADD COLUMN copy_count INTEGER DEFAULT 1: the
\* rows written without the column read as 1
AddCopyCountColumn(rows) ==
    { IF r.copy_count = NoCopyCount THEN [r EXCEPT !.copy_count = 1] ELSE r
        : r \in rows }

\* The data directory before the first run: nobody holds a lock on
\* instance.lock, encryption.key and clipboard.db do not exist
FreshDataDir ==
    [lock_holders |-> {}, key_file |-> None, keys_loaded |-> {},
     clipboard_db |-> NoDatabase]

Init ==
    /\ instances = [p \in Procs |-> NotStarted]
    /\ data_dir = FreshDataDir
    /\ calls = {}
    /\ history = None
    /\ popup = ClosedPopup
    /\ main_thread = IdleMain
    /\ pasteboard = [changeCount |-> InitialChangeCount, content |-> EmptyContent]
    /\ monitor = [last_change_count |-> InitialChangeCount, running |-> TRUE]
    /\ channel = [queue |-> << >>, rx_open |-> TRUE]
    /\ consumer = IdleConsumer
    /\ clipboard_items = {}
    /\ clipboard_data = {}
    /\ deleted_items = {}
    /\ deleted_data = {}
    /\ sqlite_sequence = [clipboard_items |-> 0, clipboard_data |-> 0,
                          deleted_items |-> 0, deleted_data |-> 0]
    /\ now = 0
    /\ faults = 0
    /\ emitted = << >>
    /\ received = << >>
    /\ plaintexts = {}

(***************************************************************************)
(* Host                                                                    *)
(***************************************************************************)
\* Some application writes the pasteboard: changeCount advances by one.
HostCopy ==
    /\ pasteboard.changeCount < InitialChangeCount + MaxCopies
    /\ \E c \in Contents :
          pasteboard' = [changeCount |-> pasteboard.changeCount + 1, content |-> c]
    /\ UNCHANGED << monitor, channel, consumer, storeVars, now, faults,
                    emitted, received, plaintexts >>
    /\ UNCHANGED main_thread
    /\ UNCHANGED osVars

\* Some application copies a picture
HostCopyImage ==
    /\ pasteboard.changeCount < InitialChangeCount + MaxCopies
    /\ \E c \in SameSizeImages :
          pasteboard' = [changeCount |-> pasteboard.changeCount + 1, content |-> c]
    /\ UNCHANGED << monitor, channel, consumer, storeVars, now, faults,
                    emitted, received, plaintexts >>
    /\ UNCHANGED main_thread
    /\ UNCHANGED osVars

(***************************************************************************)
(* Monitor (clipboard/monitor.rs)                                          *)
(***************************************************************************)
\* UnboundedSender::send: an error once the receiver is dropped
Send(ch, change) ==
    IF ch.rx_open THEN [ch EXCEPT !.queue = Append(@, change)] ELSE ch

\* MonitorTick with last_change_count updated but nothing sent
MonitorTickNoSend ==
    /\ monitor.running
    /\ monitor' = [monitor EXCEPT !.last_change_count = pasteboard.changeCount]
    /\ UNCHANGED << pasteboard, channel, emitted, consumer, storeVars, now, faults,
                    received, plaintexts >>
    /\ UNCHANGED main_thread
    /\ UNCHANGED osVars

\* MonitorTick with last_change_count updated only when send returned Ok
MonitorTickUpdateOnOk ==
    /\ monitor.running
    /\ pasteboard.changeCount # monitor.last_change_count
    /\ channel' = Send(channel, [change_count |-> pasteboard.changeCount,
                                 types |-> pasteboard.content.types,
                                 timestamp |-> now])
    /\ emitted' = Append(emitted, [change_count |-> pasteboard.changeCount,
                                   sent |-> channel.rx_open])
    /\ monitor' = IF channel.rx_open
                  THEN [monitor EXCEPT !.last_change_count = pasteboard.changeCount]
                  ELSE monitor
    /\ UNCHANGED << pasteboard, consumer, storeVars, now, faults, received,
                    plaintexts >>
    /\ UNCHANGED main_thread
    /\ UNCHANGED osVars

\* One iteration of the loop of ClipboardMonitor::start
MonitorTick ==
    /\ monitor.running
    /\ LET current_count == pasteboard.changeCount
           types == pasteboard.content.types
           change == [change_count |-> current_count, types |-> types,
                      timestamp |-> now]
       IN
       IF current_count # monitor.last_change_count
       THEN /\ channel' = Send(channel, change)
            /\ emitted' = Append(emitted, [change_count |-> current_count,
                                           sent |-> channel.rx_open])
            /\ monitor' = [monitor EXCEPT !.last_change_count = current_count]
       ELSE UNCHANGED << channel, emitted, monitor >>
    /\ UNCHANGED << pasteboard, consumer, storeVars, now, faults, received,
                    plaintexts >>
    /\ UNCHANGED main_thread
    /\ UNCHANGED osVars

\* The runtime is dropped when the thread that runs block_on unwinds: the
\* monitor task is cancelled at its next await.
RuntimeShutdown ==
    /\ consumer.pc = "panicked"
    /\ monitor.running
    /\ monitor' = [monitor EXCEPT !.running = FALSE]
    /\ UNCHANGED << pasteboard, channel, consumer, storeVars, now, faults,
                    emitted, received, plaintexts >>
    /\ UNCHANGED main_thread
    /\ UNCHANGED osVars

(***************************************************************************)
(* Store (storage/database.rs).  Every statement outside a transaction     *)
(* commits on its own; the UI works through a second connection.           *)
(***************************************************************************)
\* A statement may fail (database busy past the timeout, I/O error, full
\* disk); the model bounds how many do.
MayFail == faults < MaxFaults

Ids(table) == { r.id : r \in table }

Max(S) == CHOOSE m \in S : \A x \in S : x <= m

\* The rows of a table in rowid order
RECURSIVE InRowidOrder(_)
InRowidOrder(table) ==
    IF table = {} THEN << >>
    ELSE LET first == CHOOSE r \in table : \A q \in table : r.id <= q.id
         IN << first >> \o InRowidOrder(table \ {first})

\* The orders in which a SELECT may return the rows of a set
Orderings(rows) ==
    { f \in [1..Cardinality(rows) -> rows] :
        \A i, j \in 1..Cardinality(rows) : i # j => f[i] # f[j] }

Min(a, b) == IF a <= b THEN a ELSE b

\* get_recent_items with ORDER BY timestamp ASC
get_recent_items_asc(limit) ==
    { SubSeq(f, 1, Min(limit, Len(f))) :
        f \in { g \in Orderings(clipboard_items) :
                  \A i, j \in 1..Len(g) : i < j => g[i].timestamp <= g[j].timestamp } }

\* get_recent_items with ORDER BY id ASC
get_recent_items_by_id(limit) ==
    { SubSeq(f, 1, Min(limit, Len(f))) :
        f \in { g \in Orderings(clipboard_items) :
                  \A i, j \in 1..Len(g) : i < j => g[i].id < g[j].id } }

\* Database::get_recent_items: ORDER BY timestamp DESC LIMIT ?1.  SQL fixes
\* no order among rows with equal timestamps, so this is the set of results
\* the query may give.
get_recent_items(limit) ==
    { SubSeq(f, 1, Min(limit, Len(f))) :
        f \in { g \in Orderings(clipboard_items) :
                  \A i, j \in 1..Len(g) : i < j => g[i].timestamp >= g[j].timestamp } }

\* Database::get_blob: the rows the SELECT returns
get_blob(blob_id) == { b \in clipboard_data : b.id = blob_id }

\* The WHERE clause of remove_duplicates
Matches(row, preview, data_type) ==
    row.preview_text = Some(preview) /\ row.data_type = data_type

\* Database::remove_duplicates, the SELECT: (id, data_blob_id, copy_count)
SelectDuplicates(preview, data_type) ==
    LET rows == InRowidOrder({ r \in clipboard_items : Matches(r, preview, data_type) })
    IN [i \in 1..Len(rows) |->
           [id |-> rows[i].id, blob_id |-> rows[i].data_blob_id,
            copy_count |-> rows[i].copy_count]]

\* Database::remove_duplicates, max_copy_count
MaxCopyCount(matches) ==
    IF matches = << >> THEN 0
    ELSE Max({ matches[i].copy_count : i \in 1..Len(matches) })

\* FOREIGN KEY(data_blob_id) REFERENCES clipboard_data(id), foreign_keys = ON
BlobReferenced(blob_id) == \E r \in clipboard_items : r.data_blob_id = blob_id

\* Database::store_item, the row inserted
NewItemRow(id, timestamp, processed, is_encrypted, data_blob_id, copy_count) ==
    [id |-> id,
     timestamp |-> timestamp,
     data_type |-> processed.data_type,
     is_sensitive |-> processed.is_sensitive,
     is_encrypted |-> is_encrypted,
     preview_text |-> processed.preview_text,
     data_size |-> Len(processed.blob),
     data_blob_id |-> data_blob_id,
     metadata |-> processed.metadata,
     copy_count |-> copy_count]

(***************************************************************************)
(* Consumer (main.rs, the loop around rx.recv)                             *)
(***************************************************************************)
ProcessedData(r) ==
    [data_type |-> r.data_type, blob |-> r.blob, preview_text |-> r.preview_text,
     is_sensitive |-> r.is_sensitive, metadata |-> r.metadata]

\* SealIfSensitive with the sensitive branch lost: the plaintext is stored
SealNever(processed, enc) == << processed.blob, FALSE >>

\* SealIfSensitive with the test of is_sensitive lost: every blob is sealed
SealAlways(processed, enc) ==
    IF enc.ok THEN << enc.envelope, TRUE >> ELSE << processed.blob, FALSE >>

\* SealIfSensitive with the payload lost when encrypt fails
SealOrEmpty(processed, enc) ==
    IF processed.is_sensitive /\ ~enc.ok
    THEN << << >>, FALSE >>
    ELSE SealAlways(processed, [enc EXCEPT !.ok = processed.is_sensitive])

\* main.rs 151-169: the blob to store and its is_encrypted flag, given the
\* result of Encryptor::encrypt.  The encryptor mutex has one user, the
\* consumer itself, so lock() never finds it poisoned.
SealIfSensitive(processed, enc) ==
    IF processed.is_sensitive
    THEN (IF enc.ok THEN << enc.envelope, TRUE >> ELSE << processed.blob, FALSE >>)
    ELSE << processed.blob, FALSE >>

\* main.rs 178-182: prev_copy_count from the result of remove_duplicates
PrevCopyCount(result) == IF result.ok THEN result.max_copy_count ELSE 0

\* rx.recv, then get_image / get_string on the pasteboard as it is now, then
\* the classifier.  A panic in the classifier unwinds the thread: rx is
\* dropped with everything queued in it.
ConsumerRecv ==
    /\ consumer.pc = "recv"
    /\ channel.rx_open
    /\ channel.queue # << >>
    /\ LET change == Head(channel.queue)
           img == get_image(pasteboard.content)
           txt == get_string(pasteboard.content)
           image_result == process_image(img[1][1], img[1][2])
           text_result == process_text(txt[1], change.types)
       IN
       /\ received' = Append(received, change.change_count)
       /\ IF img = None /\ txt # None /\ text_result.panic
          THEN /\ consumer' = [IdleConsumer EXCEPT !.pc = "panicked"]
               /\ channel' = [queue |-> << >>, rx_open |-> FALSE]
          ELSE /\ channel' = [channel EXCEPT !.queue = Tail(@)]
               /\ consumer' =
                    IF img # None
                    THEN (IF image_result.ok
                          THEN [IdleConsumer EXCEPT !.pc = "encrypt",
                                    !.processed = ProcessedData(image_result)]
                          ELSE IdleConsumer)
                    ELSE IF txt # None
                         THEN [IdleConsumer EXCEPT !.pc = "encrypt",
                                   !.processed = ProcessedData(text_result)]
                         ELSE IdleConsumer
    /\ UNCHANGED << pasteboard, monitor, storeVars, now, faults, emitted,
                    plaintexts >>
    /\ UNCHANGED main_thread
    /\ UNCHANGED osVars

\* main.rs 151-169
ConsumerEncrypt ==
    /\ consumer.pc = "encrypt"
    /\ \E enc \in { [ok |-> TRUE,
                     envelope |-> Encrypt(MasterKey, n, consumer.processed.blob)]
                    : n \in Nonces }
                \cup { [ok |-> FALSE, envelope |-> << >>] } :
          /\ ~consumer.processed.is_sensitive => enc.ok /\ enc.envelope[1] = Raw("r0")
          /\ ~enc.ok => MayFail
          /\ faults' = IF enc.ok THEN faults ELSE faults + 1
          /\ LET sealed == SealIfSensitive(consumer.processed, enc) IN
             consumer' = [consumer EXCEPT
                            !.pc = "remove_duplicates",
                            !.blob_data = sealed[1],
                            !.is_encrypted = sealed[2],
                            !.encrypt_failed = consumer.processed.is_sensitive /\ ~enc.ok]
    /\ UNCHANGED << pasteboard, monitor, channel, storeVars, now, emitted,
                    received, plaintexts >>
    /\ UNCHANGED main_thread
    /\ UNCHANGED osVars

\* remove_duplicates has returned `result`: main.rs 174-183
DedupReturns(result) ==
    [consumer EXCEPT
        !.pc = "store_blob",
        !.prev_copy_count = PrevCopyCount(result),
        !.dedup_result = IF result.ok THEN "ok" ELSE "err"]

\* Database::remove_duplicates up to its SELECT
ConsumerDedupSelect ==
    /\ consumer.pc = "remove_duplicates"
    /\ LET pv == consumer.processed.preview_text
           dt == consumer.processed.data_type
           matches == IF pv = None THEN << >> ELSE SelectDuplicates(pv[1], dt)
           seen == { r.copy_count : r \in { q \in clipboard_items :
                                               pv # None /\ Matches(q, pv[1], dt) } }
       IN
       \/ /\ consumer' =
               IF matches = << >>
               THEN [DedupReturns([ok |-> TRUE, max_copy_count |-> 0])
                        EXCEPT !.matching = seen]
               ELSE [consumer EXCEPT !.pc = "dedup_delete_item",
                        !.matches = matches, !.next = 1, !.matching = seen]
          /\ UNCHANGED faults
       \/ /\ pv # None
          /\ MayFail
          /\ faults' = faults + 1
          /\ consumer' = [DedupReturns([ok |-> FALSE]) EXCEPT !.matching = seen]
    /\ UNCHANGED << pasteboard, monitor, channel, storeVars, now, emitted,
                    received, plaintexts >>
    /\ UNCHANGED main_thread
    /\ UNCHANGED osVars

\* DELETE FROM clipboard_items WHERE id = ?1, for the next match
ConsumerDedupDeleteItem ==
    /\ consumer.pc = "dedup_delete_item"
    /\ LET m == consumer.matches[consumer.next] IN
       \/ /\ clipboard_items' = { r \in clipboard_items : r.id # m.id }
          /\ consumer' = [consumer EXCEPT !.pc = "dedup_delete_blob"]
          /\ UNCHANGED faults
       \/ /\ MayFail
          /\ faults' = faults + 1
          /\ consumer' = DedupReturns([ok |-> FALSE])
          /\ UNCHANGED clipboard_items
    /\ UNCHANGED << pasteboard, monitor, channel, clipboard_data, deleted_items,
                    deleted_data, sqlite_sequence, now, emitted, received,
                    plaintexts >>
    /\ UNCHANGED main_thread
    /\ UNCHANGED osVars

\* DELETE FROM clipboard_data WHERE id = ?1, for the same match; after the
\* last match remove_duplicates returns Ok((count, max_copy_count))
ConsumerDedupDeleteBlob ==
    /\ consumer.pc = "dedup_delete_blob"
    /\ LET m == consumer.matches[consumer.next] IN
       \/ /\ ~BlobReferenced(m.blob_id)
          /\ clipboard_data' = { b \in clipboard_data : b.id # m.blob_id }
          /\ consumer' =
               IF consumer.next = Len(consumer.matches)
               THEN DedupReturns([ok |-> TRUE,
                                  max_copy_count |-> MaxCopyCount(consumer.matches)])
               ELSE [consumer EXCEPT !.pc = "dedup_delete_item", !.next = @ + 1]
          /\ UNCHANGED faults
       \/ /\ BlobReferenced(m.blob_id) \/ MayFail
          /\ faults' = IF BlobReferenced(m.blob_id) THEN faults ELSE faults + 1
          /\ consumer' = DedupReturns([ok |-> FALSE])
          /\ UNCHANGED clipboard_data
    /\ UNCHANGED << pasteboard, monitor, channel, clipboard_items, deleted_items,
                    deleted_data, sqlite_sequence, now, emitted, received,
                    plaintexts >>
    /\ UNCHANGED main_thread
    /\ UNCHANGED osVars

\* Database::store_blob
ConsumerStoreBlob ==
    /\ consumer.pc = "store_blob"
    /\ \/ /\ LET id == sqlite_sequence.clipboard_data + 1 IN
             /\ clipboard_data' = clipboard_data \cup
                                    { [id |-> id, data |-> consumer.blob_data] }
             /\ sqlite_sequence' = [sqlite_sequence EXCEPT !.clipboard_data = id]
             /\ consumer' = [consumer EXCEPT
                               !.pc = "store_item", !.blob_id = id,
                               !.items_before = Ids(clipboard_items),
                               !.blobs_before = Ids(clipboard_data)]
          /\ UNCHANGED faults
       \/ /\ MayFail
          /\ faults' = faults + 1
          /\ consumer' = IdleConsumer
          /\ UNCHANGED << clipboard_data, sqlite_sequence >>
    /\ UNCHANGED << pasteboard, monitor, channel, clipboard_items, deleted_items,
                    deleted_data, now, emitted, received, plaintexts >>
    /\ UNCHANGED main_thread
    /\ UNCHANGED osVars

\* NextItemId for a table without AUTOINCREMENT: one more than the largest
\* rowid in the table
NextItemIdByRowid ==
    IF clipboard_items = {} THEN 1 ELSE Max(Ids(clipboard_items)) + 1

\* id INTEGER PRIMARY KEY AUTOINCREMENT: one more than the largest id the
\* table ever held, which sqlite_sequence records
NextItemId == sqlite_sequence.clipboard_items + 1

\* Database::store_item with timestamp = now and copy_count = prev + 1
ConsumerStoreItem ==
    /\ consumer.pc = "store_item"
    /\ \/ /\ get_blob(consumer.blob_id) # {}
          /\ LET id == NextItemId IN
             /\ clipboard_items' = clipboard_items \cup
                  { NewItemRow(id, now, consumer.processed, consumer.is_encrypted,
                               consumer.blob_id, consumer.prev_copy_count + 1) }
             /\ sqlite_sequence' = [sqlite_sequence EXCEPT !.clipboard_items = id]
             /\ plaintexts' = plaintexts \cup
                  { [id |-> id, blob |-> consumer.processed.blob,
                     encrypt_failed |-> consumer.encrypt_failed,
                     timestamp |-> now] }
          /\ consumer' = IdleConsumer
          /\ UNCHANGED faults
       \/ /\ get_blob(consumer.blob_id) = {} \/ MayFail
          /\ faults' = IF get_blob(consumer.blob_id) = {} THEN faults ELSE faults + 1
          /\ consumer' = IdleConsumer
          /\ UNCHANGED << clipboard_items, sqlite_sequence, plaintexts >>
    /\ UNCHANGED << pasteboard, monitor, channel, clipboard_data, deleted_items,
                    deleted_data, now, emitted, received >>
    /\ UNCHANGED main_thread
    /\ UNCHANGED osVars

(***************************************************************************)
(* UI connection (ui/statusbar.rs)                                         *)
(***************************************************************************)
\* TrashBlob with the blob bytes not copied
TrashBlobEmpty(row, k) ==
    [id |-> sqlite_sequence.deleted_data + k, data |-> << >>]

\* Database::soft_delete_all_items, the trash rows for the k-th live row
TrashItem(row, k, deleted_at) ==
    [id |-> sqlite_sequence.deleted_items + k,
     original_id |-> row.id,
     timestamp |-> row.timestamp,
     deleted_at |-> deleted_at,
     data_type |-> row.data_type,
     is_sensitive |-> row.is_sensitive,
     is_encrypted |-> row.is_encrypted,
     preview_text |-> row.preview_text,
     data_size |-> row.data_size,
     deleted_blob_id |-> sqlite_sequence.deleted_data + k,
     metadata |-> row.metadata]

TrashBlob(row, k) ==
    [id |-> sqlite_sequence.deleted_data + k,
     data |-> (CHOOSE b \in clipboard_data : b.id = row.data_blob_id).data]

\* Clear History confirmed: Database::soft_delete_all_items through the UI's
\* connection.  The transaction commits as one step; when it fails it rolls
\* back and nothing changes.

\* The statements of soft_delete_all_items between BEGIN and COMMIT, for
\* count > 0: copy every (item, blob) pair, then clear the live tables
TrashAll(deleted_at) ==
    LET items == InRowidOrder(clipboard_items)
        count == Len(items)
    IN
    /\ deleted_data' = deleted_data \cup { TrashBlob(items[k], k) : k \in 1..count }
    /\ deleted_items' = deleted_items \cup
                          { TrashItem(items[k], k, deleted_at) : k \in 1..count }
    /\ clipboard_items' = {}
    /\ clipboard_data' = { b \in clipboard_data :
                             \A k \in 1..count : b.id # items[k].data_blob_id }
    /\ sqlite_sequence' = [sqlite_sequence EXCEPT
                             !.deleted_items = @ + count,
                             !.deleted_data = @ + count]

UiSoftDeleteAll ==
    /\ clipboard_items # {}
    /\ \A r \in clipboard_items : get_blob(r.data_blob_id) # {}
    /\ TrashAll(now)
    /\ UNCHANGED << pasteboard, monitor, channel, consumer, now, faults, emitted,
                    received, plaintexts >>
    /\ UNCHANGED main_thread
    /\ UNCHANGED osVars

Next ==
    \/ HostCopy
    \/ MonitorTick
    \/ RuntimeShutdown
    \/ ConsumerRecv
    \/ ConsumerEncrypt
    \/ ConsumerDedupSelect
    \/ ConsumerDedupDeleteItem
    \/ ConsumerDedupDeleteBlob
    \/ ConsumerStoreBlob
    \/ ConsumerStoreItem
    \/ UiSoftDeleteAll

Spec == Init /\ [][Next]_vars

\* The pipeline fed with pictures only
NextImages ==
    \/ HostCopyImage
    \/ MonitorTick
    \/ ConsumerRecv
    \/ ConsumerEncrypt
    \/ ConsumerDedupSelect
    \/ ConsumerDedupDeleteItem
    \/ ConsumerDedupDeleteBlob
    \/ ConsumerStoreBlob
    \/ ConsumerStoreItem

SpecImages == Init /\ [][NextImages]_vars

(***************************************************************************)
(* The store over time: the wall clock moves, the process is quit and      *)
(* started again, the main thread runs the start-up passes and the UI      *)
(* handlers on its own connection while the consumer writes through its.   *)
(***************************************************************************)
\* Events the consumer stores, clock movements and process starts explored
MaxEvents == 2
MaxClock == 1
MaxStarts == 2

SECONDS_PER_DAY == 86400
PURGE_DAYS == 7
RETENTION_DAYS == 7

NoteB == << "n","o","t","e"," ","B" >>
StoreTexts == { NoteA, NoteB }

PurgeAge == PURGE_DAYS * SECONDS_PER_DAY

\* chrono::Utc::now() between two readings: a second later, or a second more
\* than the recovery window later
LongStep == PurgeAge + 1
ClockSteps == { 1, LongStep }

\* How often the clock moved forward
Elapsed == (now \div LongStep) + (now % LongStep)

timedVars == << pasteboard, monitor, channel, emitted, received >>

ClockAdvance ==
    /\ Elapsed < MaxClock
    /\ \E d \in ClockSteps : now' = now + d
    /\ UNCHANGED << timedVars, consumer, storeVars, faults, plaintexts, main_thread >>
    /\ UNCHANGED osVars

\* The system clock is set back by a second (NTP step, manual change)
ClockSetBack ==
    /\ now % LongStep > 0
    /\ now' = now - 1
    /\ UNCHANGED << timedVars, consumer, storeVars, faults, plaintexts, main_thread >>
    /\ UNCHANGED osVars

StartupPcs == { "purge_select", "purge_delete", "purge_blob" }
CleanupPcs == { "cleanup_select", "cleanup_delete", "cleanup_blob", "returned" }

\* The consumer receives an event for a plain text, classifies it and takes
\* the db lock (main.rs 124-172).  The thread exists once start-up is over,
\* and MenuActions shares its connection and lock.
ConsumerEvent ==
    /\ consumer.pc = "recv"
    /\ main_thread.pc \notin StartupPcs \cup CleanupPcs
    /\ sqlite_sequence.clipboard_data < MaxEvents
    /\ \E t \in StoreTexts :
          LET processed == ProcessedData(process_text(t, << Utf8PlainText >>))
              sealed == SealIfSensitive(processed, [ok |-> FALSE, envelope |-> << >>])
          IN consumer' = [IdleConsumer EXCEPT
                            !.pc = "remove_duplicates",
                            !.processed = processed,
                            !.blob_data = sealed[1],
                            !.is_encrypted = sealed[2]]
    /\ UNCHANGED << timedVars, storeVars, now, faults, plaintexts, main_thread >>
    /\ UNCHANGED osVars

Returned(op, ok, count) == [op |-> op, ok |-> ok, count |-> count]

\* The handler has its Result and is about to log it
MainReturns(op, ok, count) ==
    [IdleMain EXCEPT
        !.pc = "returned",
        !.starts = main_thread.starts,
        !.result = Returned(op, ok, count)]

SoftDeleteReturns(ok, count) == MainReturns("soft_delete_all_items", ok, count)

\* clearHistory confirmed: soft_delete_all_items reads the clock, begins a
\* deferred transaction and SELECTs the live rows.  With no rows it commits.
SoftDeleteSelect ==
    /\ main_thread.pc = "idle"
    /\ \/ /\ main_thread' =
               IF clipboard_items = {}
               THEN SoftDeleteReturns(TRUE, 0)
               ELSE [main_thread EXCEPT
                        !.pc = "soft_write",
                        !.now = now,
                        !.snapshot = storeVars,
                        !.result = NoResult]
          /\ UNCHANGED faults
       \/ /\ MayFail
          /\ faults' = faults + 1
          /\ main_thread' = SoftDeleteReturns(FALSE, 0)
    /\ UNCHANGED << timedVars, consumer, storeVars, now, plaintexts >>
    /\ UNCHANGED osVars

\* SoftDeleteWrite without the snapshot check: the rows read at the SELECT
\* are copied, the live tables are cleared as they are now
SoftDeleteWriteStale ==
    /\ main_thread.pc = "soft_write"
    /\ LET items == InRowidOrder(main_thread.snapshot[1])
           count == Len(items)
           blob(row) == CHOOSE b \in main_thread.snapshot[2] : b.id = row.data_blob_id
       IN
       /\ deleted_data' = deleted_data \cup
             { [id |-> sqlite_sequence.deleted_data + k, data |-> blob(items[k]).data]
               : k \in 1..count }
       /\ deleted_items' = deleted_items \cup
             { TrashItem(items[k], k, main_thread.now) : k \in 1..count }
       /\ clipboard_items' = {}
       /\ clipboard_data' = { b \in clipboard_data :
                                \A k \in 1..count : b.id # items[k].data_blob_id }
       /\ sqlite_sequence' = [sqlite_sequence EXCEPT
                                !.deleted_items = @ + count,
                                !.deleted_data = @ + count]
       /\ main_thread' = SoftDeleteReturns(TRUE, count)
    /\ UNCHANGED << timedVars, consumer, now, faults, plaintexts >>
    /\ UNCHANGED osVars

\* The first INSERT of the transaction takes the write lock.  In WAL mode
\* that fails at once (SQLITE_BUSY_SNAPSHOT) when the other connection has
\* committed since the SELECT; the error drops the transaction, which rolls
\* back.  With the lock held nothing else is written until COMMIT, and
\* readers see the old state until then.
SoftDeleteWrite ==
    /\ main_thread.pc = "soft_write"
    /\ \/ /\ storeVars = main_thread.snapshot
          /\ \A r \in clipboard_items : get_blob(r.data_blob_id) # {}
          /\ TrashAll(main_thread.now)
          /\ main_thread' = SoftDeleteReturns(TRUE, Cardinality(clipboard_items))
          /\ UNCHANGED faults
       \/ /\ \/ storeVars # main_thread.snapshot
             \/ \E r \in clipboard_items : get_blob(r.data_blob_id) = {}
             \/ MayFail
          /\ faults' = IF storeVars = main_thread.snapshot
                          /\ \A r \in clipboard_items : get_blob(r.data_blob_id) # {}
                       THEN faults + 1 ELSE faults
          /\ main_thread' = SoftDeleteReturns(FALSE, 0)
          /\ UNCHANGED storeVars
    /\ UNCHANGED << timedVars, consumer, now, plaintexts >>
    /\ UNCHANGED osVars

\* main.rs 74-78: whatever purge_deleted_items returns, start-up goes on
\* to cleanup_old_items(7)
PurgeReturns(ok, count) ==
    [IdleMain EXCEPT
        !.pc = "cleanup_select",
        !.retention_days = RETENTION_DAYS,
        !.starts = main_thread.starts,
        !.result = Returned("purge_deleted_items", ok, count)]

MainFails(returns) ==
    /\ MayFail
    /\ faults' = faults + 1
    /\ main_thread' = returns
    /\ UNCHANGED storeVars
    /\ UNCHANGED osVars

\* Database::purge_deleted_items: the cutoff and the SELECT of blob ids
PurgeSelect ==
    /\ main_thread.pc = "purge_select"
    /\ \/ /\ LET cutoff == now - PurgeAge
                 rows == InRowidOrder({ t \in deleted_items : t.deleted_at < cutoff })
             IN main_thread' = [main_thread EXCEPT
                   !.pc = "purge_delete",
                   !.cutoff = cutoff,
                   !.blob_ids = [k \in 1..Len(rows) |-> rows[k].deleted_blob_id]]
          /\ UNCHANGED << storeVars, faults >>
       \/ MainFails(PurgeReturns(FALSE, 0))
    /\ UNCHANGED << timedVars, consumer, now, plaintexts >>
    /\ UNCHANGED osVars

\* DELETE FROM deleted_items WHERE deleted_at < ?1
PurgeDelete ==
    /\ main_thread.pc = "purge_delete"
    /\ \/ /\ LET expired == { t \in deleted_items : t.deleted_at < main_thread.cutoff }
             IN /\ deleted_items' = deleted_items \ expired
                /\ main_thread' =
                     IF main_thread.blob_ids = << >>
                     THEN PurgeReturns(TRUE, Cardinality(expired))
                     ELSE [main_thread EXCEPT !.pc = "purge_blob",
                                              !.deleted = Cardinality(expired)]
          /\ UNCHANGED << clipboard_items, clipboard_data, deleted_data,
                          sqlite_sequence, faults >>
       \/ MainFails(PurgeReturns(FALSE, 0))
    /\ UNCHANGED << timedVars, consumer, now, plaintexts >>
    /\ UNCHANGED osVars

\* DELETE FROM deleted_data WHERE id = ?1, for the next blob id
PurgeBlob ==
    /\ main_thread.pc = "purge_blob"
    /\ \/ /\ deleted_data' = { b \in deleted_data : b.id # Head(main_thread.blob_ids) }
          /\ main_thread' =
               IF Len(main_thread.blob_ids) = 1
               THEN PurgeReturns(TRUE, main_thread.deleted)
               ELSE [main_thread EXCEPT !.blob_ids = Tail(@)]
          /\ UNCHANGED << clipboard_items, clipboard_data, deleted_items,
                          sqlite_sequence, faults >>
       \/ MainFails(PurgeReturns(FALSE, 0))
    /\ UNCHANGED << timedVars, consumer, now, plaintexts >>
    /\ UNCHANGED osVars

CleanupReturns(ok, count) == MainReturns("cleanup_old_items", ok, count)

\* Database::cleanup_old_items: the cutoff and the SELECT of blob ids
CleanupSelect ==
    /\ main_thread.pc = "cleanup_select"
    /\ \/ /\ LET cutoff == now - main_thread.retention_days * SECONDS_PER_DAY
                 rows == InRowidOrder({ r \in clipboard_items : r.timestamp < cutoff })
             IN main_thread' = [main_thread EXCEPT
                   !.pc = "cleanup_delete",
                   !.result = NoResult,
                   !.cutoff = cutoff,
                   !.blob_ids = [k \in 1..Len(rows) |-> rows[k].data_blob_id]]
          /\ UNCHANGED << storeVars, faults >>
       \/ MainFails(CleanupReturns(FALSE, 0))
    /\ UNCHANGED << timedVars, consumer, now, plaintexts >>
    /\ UNCHANGED osVars

\* DELETE FROM clipboard_items WHERE timestamp < ?1
CleanupDelete ==
    /\ main_thread.pc = "cleanup_delete"
    /\ \/ /\ LET old == { r \in clipboard_items : r.timestamp < main_thread.cutoff }
             IN /\ clipboard_items' = clipboard_items \ old
                /\ main_thread' =
                     IF main_thread.blob_ids = << >>
                     THEN CleanupReturns(TRUE, Cardinality(old))
                     ELSE [main_thread EXCEPT !.pc = "cleanup_blob",
                                              !.deleted = Cardinality(old)]
          /\ UNCHANGED << clipboard_data, deleted_items, deleted_data,
                          sqlite_sequence, faults >>
       \/ MainFails(CleanupReturns(FALSE, 0))
    /\ UNCHANGED << timedVars, consumer, now, plaintexts >>
    /\ UNCHANGED osVars

\* DELETE FROM clipboard_data WHERE id = ?1, for the next blob id
CleanupBlob ==
    /\ main_thread.pc = "cleanup_blob"
    /\ LET blob_id == Head(main_thread.blob_ids) IN
       \/ /\ ~BlobReferenced(blob_id)
          /\ clipboard_data' = { b \in clipboard_data : b.id # blob_id }
          /\ main_thread' =
               IF Len(main_thread.blob_ids) = 1
               THEN CleanupReturns(TRUE, main_thread.deleted)
               ELSE [main_thread EXCEPT !.blob_ids = Tail(@)]
          /\ UNCHANGED << clipboard_items, deleted_items, deleted_data,
                          sqlite_sequence, faults >>
       \/ /\ BlobReferenced(blob_id)
          /\ main_thread' = CleanupReturns(FALSE, 0)
          /\ UNCHANGED << storeVars, faults >>
       \/ /\ ~BlobReferenced(blob_id)
          /\ MainFails(CleanupReturns(FALSE, 0))
    /\ UNCHANGED << timedVars, consumer, now, plaintexts >>
    /\ UNCHANGED osVars

\* The match on the Result logs it; the handler is over
MainLogged ==
    /\ main_thread.pc = "returned"
    /\ main_thread' = [IdleMain EXCEPT !.starts = main_thread.starts]
    /\ UNCHANGED << timedVars, consumer, storeVars, now, faults, plaintexts >>
    /\ UNCHANGED osVars

\* MenuActions::clear_history: cleanup_old_items(0) under the db lock the
\* consumer also uses
MenuClearHistory ==
    /\ main_thread.pc = "idle"
    /\ consumer.pc = "recv"
    /\ main_thread' = [IdleMain EXCEPT
                          !.pc = "cleanup_select",
                          !.retention_days = 0,
                          !.starts = main_thread.starts]
    /\ UNCHANGED << timedVars, consumer, storeVars, now, faults, plaintexts >>
    /\ UNCHANGED osVars

\* The process is quit and started again: main opens the database and runs
\* purge_deleted_items and cleanup_old_items(7) before it spawns the consumer
Restart ==
    /\ main_thread.pc = "idle"
    /\ main_thread.starts < MaxStarts
    /\ main_thread' = [IdleMain EXCEPT
                          !.pc = "purge_select",
                          !.starts = main_thread.starts + 1]
    /\ consumer' = IdleConsumer
    /\ UNCHANGED << timedVars, storeVars, now, faults, plaintexts >>
    /\ UNCHANGED osVars

NextStore ==
    \/ ClockAdvance
    \/ ClockSetBack
    \/ ConsumerEvent
    \/ ConsumerDedupSelect
    \/ ConsumerDedupDeleteItem
    \/ ConsumerDedupDeleteBlob
    \/ ConsumerStoreBlob
    \/ ConsumerStoreItem
    \/ SoftDeleteSelect
    \/ SoftDeleteWrite
    \/ MenuClearHistory
    \/ Restart
    \/ PurgeSelect
    \/ PurgeDelete
    \/ PurgeBlob
    \/ CleanupSelect
    \/ CleanupDelete
    \/ CleanupBlob
    \/ MainLogged

SpecStore == Init /\ [][NextStore]_vars

\* A statement of the consumer's iteration, once it has an event
ConsumerStep ==
    \/ ConsumerDedupSelect
    \/ ConsumerDedupDeleteItem
    \/ ConsumerDedupDeleteBlob
    \/ ConsumerStoreBlob
    \/ ConsumerStoreItem

\* A statement of a handler or start-up pass the main thread has begun
MainStep ==
    \/ SoftDeleteWrite
    \/ PurgeSelect
    \/ PurgeDelete
    \/ PurgeBlob
    \/ CleanupSelect
    \/ CleanupDelete
    \/ CleanupBlob
    \/ MainLogged

\* Both threads keep running: what they have begun they finish.  Copies,
\* menu clicks, quitting and the passing of time are up to the environment.
SpecStoreFair ==
    /\ Init
    /\ [][NextStore]_vars
    /\ WF_vars(ConsumerStep)
    /\ WF_vars(MainStep)

(***************************************************************************)
(* Properties                                                              *)
(***************************************************************************)
\* What the consumer was storing when it wrote item `id`
StoredAs(id) == { h \in plaintexts : h.id = id }

TrashBlobOf(blob_id) == { b \in deleted_data : b.id = blob_id }

IsEnvelopeOf(data, plain) ==
    /\ data # plain
    /\ Decrypt(MasterKey, data) = [ok |-> TRUE, plaintext |-> plain]

\* C1: every item stored with is_sensitive = true has is_encrypted = true and a
\* blob that is an encryption envelope of the payload, never the payload
\* itself, unless encrypt() returned an error for that event.  Rows moved to
\* the trash keep the property.
C1_SensitiveIsSealed ==
    /\ \A it \in clipboard_items : \A h \in StoredAs(it.id) :
          it.is_sensitive /\ ~h.encrypt_failed =>
             /\ it.is_encrypted
             /\ get_blob(it.data_blob_id) # {}
             /\ \A b \in get_blob(it.data_blob_id) : IsEnvelopeOf(b.data, h.blob)
    /\ \A it \in deleted_items : \A h \in StoredAs(it.original_id) :
          it.is_sensitive /\ ~h.encrypt_failed =>
             /\ it.is_encrypted
             /\ \A b \in TrashBlobOf(it.deleted_blob_id) : IsEnvelopeOf(b.data, h.blob)

\* A sensitive payload is live in the store, sealed
C1_Witness ==
    \E it \in clipboard_items :
        /\ it.is_sensitive
        /\ it.is_encrypted
        /\ \E b \in get_blob(it.data_blob_id) : Len(b.data) > NONCE_SIZE + TAG_SIZE

\* C2: for every item, live or trashed, with is_sensitive = true, preview_text
\* does not contain the raw plaintext of the item's payload.
C2_PreviewHidesPlaintext ==
    /\ \A it \in clipboard_items : \A h \in StoredAs(it.id) :
          it.is_sensitive /\ it.preview_text # None =>
             ~Contains(AsBytes(it.preview_text[1]), h.blob)
    /\ \A it \in deleted_items : \A h \in StoredAs(it.original_id) :
          it.is_sensitive /\ it.preview_text # None =>
             ~Contains(AsBytes(it.preview_text[1]), h.blob)

\* C3: no two live items have the same data_type and the same non-null
\* preview_text, also after a store operation returned an error.
C3_NoDuplicateLiveRows ==
    \A a, b \in clipboard_items :
        a.id # b.id /\ a.preview_text # None =>
            ~(a.data_type = b.data_type /\ a.preview_text = b.preview_text)

\* The step in which store_item inserts its row
StoreItemSucceeds ==
    consumer.pc = "store_item" /\ clipboard_items' # clipboard_items

\* The step in which remove_duplicates returns
DedupReturnsOk ==
    consumer.dedup_result = "none" /\ consumer'.dedup_result = "ok"
DedupReturnsErr ==
    consumer.dedup_result = "none" /\ consumer'.dedup_result = "err"

\* The step in which soft_delete_all_items commits
SoftDeleteCommits == deleted_items' # deleted_items

\* C4: the row the consumer stores has copy_count = 1 + the maximum copy_count
\* of the live rows with its (data_type, preview_text) that it displaces, and
\* copy_count = 1 when there was none.
C4_CopyCountCarried ==
    [][StoreItemSucceeds =>
          \A new \in clipboard_items' \ clipboard_items :
             new.copy_count = IF consumer.matching = {} THEN 1
                              ELSE Max(consumer.matching) + 1]_vars

\* Items and blobs correspond one to one, in the live tables and in the trash
OneToOne ==
    /\ \A it \in clipboard_items :
          Cardinality(get_blob(it.data_blob_id)) = 1
    /\ \A b \in clipboard_data :
          Cardinality({ it \in clipboard_items : it.data_blob_id = b.id }) = 1
    /\ \A it \in deleted_items :
          Cardinality(TrashBlobOf(it.deleted_blob_id)) = 1
    /\ \A b \in deleted_data :
          Cardinality({ it \in deleted_items : it.deleted_blob_id = b.id }) = 1

\* C5: after every store operation that completed successfully (insert,
\* dedupe, soft_delete_all) items and blobs are in one-to-one correspondence
\* and no blob row is unreferenced.
C5_OneToOneAfterSuccess ==
    [][StoreItemSucceeds \/ DedupReturnsOk \/ SoftDeleteCommits => OneToOne']_vars

\* The step in which store_blob or store_item returns an error
InsertFails ==
    /\ consumer.pc \in {"store_blob", "store_item"}
    /\ consumer'.pc = "recv"
    /\ sqlite_sequence'.clipboard_items = sqlite_sequence.clipboard_items

\* C6: when a step of an insert fails, no new blob row and no new item row
\* exist: the store holds nothing it did not hold before the insert began.
C6_FailedInsertLeavesNothing ==
    [][InsertFails =>
          LET items_before == IF consumer.pc = "store_blob"
                              THEN Ids(clipboard_items) ELSE consumer.items_before
              blobs_before == IF consumer.pc = "store_blob"
                              THEN Ids(clipboard_data) ELSE consumer.blobs_before
          IN /\ Ids(clipboard_items') \subseteq items_before
             /\ Ids(clipboard_data') \subseteq blobs_before]_vars

NoOrphanBlob ==
    /\ \A b \in clipboard_data : \E it \in clipboard_items : it.data_blob_id = b.id
    /\ \A b \in deleted_data : \E it \in deleted_items : it.deleted_blob_id = b.id

\* C7: when remove_duplicates returns an error after some of its statements
\* ran, either all the rows it selected and their blobs are gone or none is,
\* and no blob is left unreferenced.
C7_FailedDedupeAllOrNothing ==
    [][DedupReturnsErr =>
          LET m == consumer.matches
              n == 1..Len(m)
          IN /\ \/ \A i \in n : /\ m[i].id \notin Ids(clipboard_items')
                                /\ m[i].blob_id \notin Ids(clipboard_data')
                \/ \A i \in n : /\ m[i].id \in Ids(clipboard_items')
                                /\ m[i].blob_id \in Ids(clipboard_data')
             /\ NoOrphanBlob']_vars

\* The counters of the events that went into the channel
SentCounts ==
    LET sent == SelectSeq(emitted, LAMBDA e : e.sent)
    IN [i \in 1..Len(sent) |-> sent[i].change_count]

\* C8 as claimed: for every advance of the host counter that the monitor has
\* polled past, an event with that counter was emitted.
C8_EveryAdvanceEmitted ==
    \A c \in (InitialChangeCount + 1)..monitor.last_change_count :
        \E i \in 1..Len(emitted) : emitted[i].change_count = c

\* C8 as amended: every advance of the host counter that the monitor has
\* polled past is covered by an emitted event whose counter is that of the
\* advance or of a later one; the monitor never moves last_change_count
\* without emitting the counter it moved to.
C8_EveryAdvanceCovered ==
    /\ \A c \in (InitialChangeCount + 1)..monitor.last_change_count :
          \E i \in 1..Len(emitted) : emitted[i].change_count >= c
    /\ monitor.last_change_count # InitialChangeCount =>
          /\ emitted # << >>
          /\ emitted[Len(emitted)].change_count = monitor.last_change_count

\* Two advances between two polls gave one event
C8_Witness ==
    /\ monitor.last_change_count = InitialChangeCount + 2
    /\ Len(emitted) = 1

\* C9: the counters of the emitted events are strictly increasing, also
\* after a failed send, and the consumer receives the events that were sent
\* in the order they were sent.
C9_IncreasingAndInOrder ==
    /\ \A i, j \in 1..Len(emitted) :
          i < j => emitted[i].change_count < emitted[j].change_count
    /\ Len(received) <= Len(SentCounts)
    /\ received = SubSeq(SentCounts, 1, Len(received))
    /\ channel.rx_open =>
          received \o [i \in 1..Len(channel.queue) |-> channel.queue[i].change_count]
             = SentCounts

\* Two events were received, the second with the greater counter
C9_Witness ==
    /\ Len(received) = 2
    /\ received[1] < received[2]

\* C10: no event terminates the monitor loop or the consumer loop.
C10_LoopsNeverTerminate ==
    /\ consumer.pc # "panicked"
    /\ monitor.running

\* A live row with the (data_type, preview_text) the consumer is processing
LiveRowForEvent(items) ==
    \E r \in items :
        /\ consumer.processed.preview_text # None
        /\ Matches(r, consumer.processed.preview_text[1], consumer.processed.data_type)

\* A step of the consumer between remove_duplicates and the end of store_item
ConsumerStoreStep ==
    /\ consumer.pc \in {"remove_duplicates", "dedup_delete_item",
                        "dedup_delete_blob", "store_blob", "store_item"}
    /\ consumer' # consumer

\* C11: while the consumer processes a copy of content that has a live row,
\* no step of the consumer leaves the store, as the UI's connection reads it,
\* with zero live rows for that (data_type, preview_text).
C11_ReaderNeverSeesZeroRows ==
    [][ConsumerStoreStep /\ LiveRowForEvent(clipboard_items)
          => LiveRowForEvent(clipboard_items')]_vars

\* C12: deduplication removes a live item only when the payload being stored
\* is the payload that item was stored with; copies with different payloads
\* are both kept.
C12_DisplacedOnlyBySameContent ==
    [][consumer.pc = "dedup_delete_item" =>
          \A r \in clipboard_items \ clipboard_items' :
             \A h \in StoredAs(r.id) : h.blob = consumer.processed.blob]_vars

\* The step in which the main thread's handler `op` returns with Ok or Err
MainReturnsFrom(op, ok) ==
    /\ main_thread.pc # "returned"
    /\ main_thread'.pc = "returned"
    /\ main_thread'.result.op = op
    /\ main_thread'.result.ok = ok

\* The trash rows a step adds
NewTrash == deleted_items' \ deleted_items

\* Trash row t and its trash blob hold live row r and the bytes of its blob
TrashCopyOf(t, r, blobs, trash_blobs) ==
    /\ t.original_id = r.id
    /\ \E tb \in trash_blobs :
          /\ tb.id = t.deleted_blob_id
          /\ \E b \in blobs : b.id = r.data_blob_id /\ tb.data = b.data

\* C13: when soft_delete_all returns success with n live items present, no
\* live item is left, their blobs are gone from the live blob table, the
\* trash has exactly n rows more, each new trash row has deleted_at = the
\* time the operation read and original_id = a live id, each trash blob has
\* the bytes of the original blob, and the count returned is n.
C13_SoftDeleteMovesAll ==
    [][MainReturnsFrom("soft_delete_all_items", TRUE) =>
          LET n == Cardinality(clipboard_items) IN
          /\ clipboard_items' = {}
          /\ \A r \in clipboard_items : \A b \in clipboard_data' : b.id # r.data_blob_id
          /\ Cardinality(deleted_items') = Cardinality(deleted_items) + n
          /\ Cardinality(NewTrash) = n
          /\ main_thread'.result.count = n
          /\ \A t \in NewTrash : t.deleted_at = main_thread.now
          /\ \A r \in clipboard_items :
                \E t \in NewTrash : TrashCopyOf(t, r, clipboard_data, deleted_data')]_vars

\* soft_delete_all has just returned Ok(2)
C13_Witness ==
    /\ main_thread.pc = "returned"
    /\ main_thread.result = Returned("soft_delete_all_items", TRUE, 2)
    /\ clipboard_items = {}
    /\ Cardinality(deleted_items) >= 2

\* A step of soft_delete_all_items
SoftDeleteStep ==
    \/ main_thread.pc = "soft_write" /\ main_thread' # main_thread
    \/ main_thread.pc = "idle" /\ main_thread'.pc = "soft_write"
    \/ MainReturnsFrom("soft_delete_all_items", TRUE)
    \/ MainReturnsFrom("soft_delete_all_items", FALSE)

\* C14: soft_delete_all removes no live item without a trash row holding a
\* copy of it and of its blob; when it fails, live and trash tables are as
\* they were, also when the consumer committed an insert between the read of
\* the live rows and the clearing of the live tables.
C14_NothingLostBySoftDelete ==
    [][SoftDeleteStep =>
          /\ \A r \in clipboard_items \ clipboard_items' :
                \E t \in deleted_items' :
                    TrashCopyOf(t, r, clipboard_data, deleted_data')
          /\ MainReturnsFrom("soft_delete_all_items", FALSE) =>
                UNCHANGED storeVars]_vars

\* soft_delete_all gave up because the consumer had committed after its
\* SELECT; what the consumer wrote is live
C14_Witness ==
    /\ main_thread.pc = "returned"
    /\ main_thread.result = Returned("soft_delete_all_items", FALSE, 0)
    /\ faults = 0
    /\ clipboard_items # {}

\* C15: the trash row written by soft_delete_all carries every field of the
\* live row (timestamp, data_type, is_sensitive, is_encrypted, preview_text,
\* data_size, metadata, copy_count) and its blob bytes.
C15_TrashCarriesEveryField ==
    [][MainReturnsFrom("soft_delete_all_items", TRUE) =>
          \A r \in clipboard_items :
             \E t \in NewTrash :
                /\ TrashCopyOf(t, r, clipboard_data, deleted_data')
                /\ t.timestamp = r.timestamp
                /\ t.data_type = r.data_type
                /\ t.is_sensitive = r.is_sensitive
                /\ t.is_encrypted = r.is_encrypted
                /\ t.preview_text = r.preview_text
                /\ t.data_size = r.data_size
                /\ t.metadata = r.metadata
                /\ "copy_count" \in DOMAIN t
                /\ t.copy_count = r.copy_count]_vars

RetentionAge == RETENTION_DAYS * SECONDS_PER_DAY

\* Live item `id` is older than retention_days
ExpiredLive(id) ==
    \E r \in clipboard_items : r.id = id /\ r.timestamp < now - RetentionAge

\* Trash row `id` is older than purge_days
ExpiredTrash(id) ==
    \E t \in deleted_items : t.id = id /\ t.deleted_at < now - PurgeAge

\* C16: in a process that keeps running, every live item older than
\* retention_days and every trash row older than purge_days is eventually
\* removed, without the process being started again.
C16_ExpiredEventuallyRemoved ==
    \A id \in 1..MaxEvents :
        /\ ExpiredLive(id) ~> (~ExpiredLive(id) \/ main_thread.pc \in StartupPcs)
        /\ ExpiredTrash(id) ~> (~ExpiredTrash(id) \/ main_thread.pc \in StartupPcs)

\* C17: cleanup_old_items(0) that returns Ok has deleted every live item
\* whose timestamp is not in the future of the clock reading it took, items
\* of the current second included, with its blob, and returns how many.
C17_CleanupZeroClearsAll ==
    [][MainReturnsFrom("cleanup_old_items", TRUE) /\ main_thread.retention_days = 0 =>
          /\ \A r \in clipboard_items' : r.timestamp > main_thread.cutoff
          /\ \A r \in clipboard_items \ clipboard_items' :
                \A b \in clipboard_data' : b.id # r.data_blob_id]_vars

\* The step in which purge_deleted_items returns Ok
PurgeReturnsOk ==
    /\ main_thread.pc \in StartupPcs
    /\ main_thread'.pc = "cleanup_select"
    /\ main_thread'.result.ok

\* C18: purge_deleted removes only trash rows whose deleted_at is older than
\* the 7-day purge age, and after a purge that returned Ok the trash holds
\* no row older than that and no blob without a row: neither row nor blob
\* of an item soft-deleted more than 7 days before.
C18_PurgeRemovesExactlyExpired ==
    [][main_thread.pc \in StartupPcs =>
          /\ \A t \in deleted_items \ deleted_items' :
                t.deleted_at < main_thread.cutoff
          /\ PurgeReturnsOk =>
                /\ \A t \in deleted_items' : t.deleted_at >= main_thread.cutoff
                /\ \A b \in deleted_data' :
                      \E t \in deleted_items' : t.deleted_blob_id = b.id]_vars

\* The limits the UI passes to get_recent_items
Limits == 0..(MaxEvents + 1)

IssuedIds == { h.id : h \in plaintexts }

\* C20 as claimed: each successful insert gets an id greater than every id
\* issued before and a timestamp not smaller than that of any earlier insert.
C20_IdsAndTimestampsMonotonic ==
    [][StoreItemSucceeds =>
          \A new \in clipboard_items' \ clipboard_items :
             /\ \A id \in IssuedIds : new.id > id
             /\ \A h \in plaintexts : new.timestamp >= h.timestamp]_vars

\* C20 as amended: each successful insert gets an id greater than every id
\* issued before, also after the live table was emptied, and its timestamp
\* is the reading of the wall clock at the insert.
C20_IdsMonotonicTimestampIsClock ==
    [][StoreItemSucceeds =>
          \A new \in clipboard_items' \ clipboard_items :
             /\ \A id \in IssuedIds : new.id > id
             /\ \A t \in deleted_items : new.id > t.original_id
             /\ new.timestamp = now]_vars

\* An item stored after the live table was emptied
C20_Witness ==
    /\ Cardinality(clipboard_items) = 1
    /\ \E r \in clipboard_items : \E t \in deleted_items :
          r.id = t.original_id + 1 /\ r.id = Max(IssuedIds)

\* The step of the consumer in which store_item commits its row
InsertCommits ==
    /\ consumer.pc = "store_item"
    /\ consumer'.pc = "recv"
    /\ sqlite_sequence'.clipboard_items = NextItemId

\* C21: a get_recent_items call the UI issues on its own connection once
\* store_item has committed returns the new row, whenever the limit leaves
\* room for it: the limit exceeds the number of live rows whose timestamp is
\* not smaller than the new row's.
C21_ReadAfterInsertSeesRow ==
    [][InsertCommits =>
          \A limit \in Limits :
             limit > Cardinality({ r \in clipboard_items : r.timestamp >= now })
             => \A items \in get_recent_items(limit)' :
                   \E i \in 1..Len(items) : items[i].id = NextItemId]_vars

\* The consumer has just stored a second item, in a later second than the
\* first, and a read with limit 1 returns it
C21_Witness ==
    /\ consumer.pc = "recv"
    /\ Cardinality(clipboard_items) = 2
    /\ \E new \in clipboard_items :
          /\ new.id = sqlite_sequence.clipboard_items
          /\ new.timestamp = now
          /\ \A r \in clipboard_items \ {new} : r.timestamp < new.timestamp
          /\ get_recent_items(1) = { << new >> }

\* C22: in every reachable state of the store, every row of the live table
\* and of the trash table with is_encrypted = true has is_sensitive = true.
C22_EncryptedImpliesSensitive ==
    /\ \A r \in clipboard_items : r.is_encrypted => r.is_sensitive
    /\ \A t \in deleted_items : t.is_encrypted => t.is_sensitive

\* A sealed item is live while another sealed item is in the trash
C22_Witness ==
    /\ \E r \in clipboard_items : r.is_encrypted /\ r.is_sensitive
    /\ \E t \in deleted_items : t.is_encrypted /\ t.is_sensitive

\* The step in which Encryptor::encrypt returns Err for a sensitive payload
EncryptFails ==
    /\ consumer.pc = "encrypt"
    /\ consumer.processed.is_sensitive
    /\ faults' = faults + 1

\* C23: when encrypt() fails for a sensitive payload the consumer goes on to
\* store the event, and the row store_item then inserts has the plaintext as
\* its blob, is_encrypted = false, is_sensitive = true and data_size equal
\* to the length of the plaintext.
C23_EncryptFailureStoresPlaintext ==
    [][/\ EncryptFails =>
            /\ consumer'.pc = "remove_duplicates"
            /\ consumer'.blob_data = consumer.processed.blob
            /\ ~consumer'.is_encrypted
       /\ InsertCommits /\ consumer.encrypt_failed =>
            \E r \in clipboard_items' :
               /\ r.id = NextItemId
               /\ r.is_sensitive
               /\ ~r.is_encrypted
               /\ r.data_size = Len(consumer.processed.blob)
               /\ get_blob(r.data_blob_id)
                     = { [id |-> r.data_blob_id, data |-> consumer.processed.blob] }]_vars

\* A sensitive payload whose encryption failed is live, stored as it was
C23_Witness ==
    \E r \in clipboard_items : \E h \in StoredAs(r.id) :
        /\ h.encrypt_failed
        /\ r.is_sensitive
        /\ ~r.is_encrypted
        /\ r.data_size = Len(h.blob)
        /\ \E b \in get_blob(r.data_blob_id) : b.data = h.blob /\ b.data # << >>

(***************************************************************************)
(* Processes on one data directory (main.rs, from start-up to the run      *)
(* loop; storage/encryption.rs, the key file)                              *)
(*                                                                         *)
(* instance.lock is followed by the set of processes that hold an          *)
(* exclusive flock on it: flock(LOCK_EX | LOCK_NB) succeeds when the set   *)
(* is empty, and the kernel drops a process from it when the process's     *)
(* File handle is closed, which happens at the latest when the process     *)
(* ends.  encryption.key is None while it does not exist, else its length  *)
(* and the key its bytes spell.                                            *)
(***************************************************************************)
KEY_SIZE == 32

\* The keys ChaCha20Poly1305::generate_key may draw
Keys == {MasterKey, "key1"}

\* What a write of the key that did not complete leaves behind
PartialLengths == {0, 16}

programVars == << pasteboard, monitor, channel, consumer, storeVars, now,
                  faults, emitted, received, plaintexts, main_thread, calls,
                  history, popup >>

\* load_or_create_key that never looks for an existing file
load_or_create_key_fresh(key_file) ==
    { [ok |-> TRUE, key |-> k, key_file |-> Some([len |-> KEY_SIZE, key |-> k])]
        : k \in Keys }

\* Encryptor::load_or_create_key: the outcomes it may have on a key file,
\* each with the key file it leaves
load_or_create_key(key_file) ==
    IF key_file # None
    THEN (IF key_file[1].len # KEY_SIZE
          THEN { [ok |-> FALSE, err |-> "Invalid key length", key_file |-> key_file] }
          ELSE { [ok |-> TRUE, key |-> key_file[1].key, key_file |-> key_file],
                 [ok |-> FALSE, err |-> "Failed to read encryption key",
                  key_file |-> key_file] })
    ELSE { [ok |-> TRUE, key |-> k, key_file |-> Some([len |-> KEY_SIZE, key |-> k])]
             : k \in Keys }
         \cup { [ok |-> FALSE, err |-> "Failed to save encryption key",
                 key_file |-> None] }
         \cup { [ok |-> FALSE, err |-> "Failed to save encryption key",
                 key_file |-> Some([len |-> n, key |-> ""])] : n \in PartialLengths }
         \cup { [ok |-> FALSE, err |-> "Failed to set key file permissions",
                 key_file |-> Some([len |-> KEY_SIZE, key |-> k])] : k \in Keys }

StoppedPcs == {"off", "exited", "exit_0"}

\* The process ends: its memory is gone and the kernel closes its files
Ended(p, pc) ==
    /\ instances' = [instances EXCEPT ![p].pc = pc,
                                      ![p].encryptor = None,
                                      ![p].encryptor_for_ui = None]
    /\ data_dir' = [data_dir EXCEPT !.lock_holders = @ \ {p}]

\* The user, or launchd, starts the program; main creates the data directory
ProcessStart(p) ==
    /\ instances[p].pc \in StoppedPcs
    /\ instances' = [instances EXCEPT ![p] = [NotStarted EXCEPT !.pc = "acquire_instance_lock"]]
    /\ UNCHANGED << data_dir, programVars >>

\* acquire_instance_lock with the File dropped as soon as flock returned
AcquireInstanceLockDropped(p) ==
    /\ instances[p].pc = "acquire_instance_lock"
    /\ IF data_dir.lock_holders = {}
       THEN /\ instances' = [instances EXCEPT ![p].pc = "database_new"]
            /\ UNCHANGED data_dir
       ELSE Ended(p, "exit_0")
    /\ UNCHANGED programVars

\* acquire_instance_lock and the match on its result (main.rs 53-62): the
\* File lives in _instance_lock until main returns
AcquireInstanceLock(p) ==
    /\ instances[p].pc = "acquire_instance_lock"
    /\ IF data_dir.lock_holders = {}
       THEN /\ instances' = [instances EXCEPT ![p].pc = "database_new"]
            /\ data_dir' = [data_dir EXCEPT !.lock_holders = {p}]
       ELSE Ended(p, "exit_0")
    /\ UNCHANGED programVars

\* Database::new: opens clipboard.db and runs initialize_schema
DatabaseNew(p) ==
    /\ instances[p].pc = "database_new"
    /\ instances' = [instances EXCEPT ![p].pc = "purge_deleted_items",
                                      ![p].store_ops = @ \cup {"initialize_schema"}]
    /\ data_dir' = [data_dir EXCEPT
                      !.clipboard_db = initialize_schema(@, Len(SchemaStatements))]
    /\ UNCHANGED programVars

\* main.rs 74-78
StartupPurge(p) ==
    /\ instances[p].pc = "purge_deleted_items"
    /\ instances' = [instances EXCEPT ![p].pc = "encryptor_new",
                                      ![p].store_ops = @ \cup {"purge_deleted_items"}]
    /\ UNCHANGED << data_dir, programVars >>

\* Encryptor::new(key_path).expect(...): an Err panics and the process ends
EncryptorNewInto(p, field, next_pc) ==
    \E o \in load_or_create_key(data_dir.key_file) :
       IF o.ok
       THEN /\ instances' = [instances EXCEPT ![p].pc = next_pc,
                                              ![p][field] = Some(o.key)]
            /\ data_dir' = [data_dir EXCEPT !.key_file = o.key_file,
                                            !.keys_loaded = @ \cup {o.key}]
       ELSE /\ instances' = [instances EXCEPT ![p].pc = "exited",
                                              ![p].encryptor = None,
                                              ![p].encryptor_for_ui = None]
            /\ data_dir' = [data_dir EXCEPT !.key_file = o.key_file,
                                            !.lock_holders = @ \ {p}]

\* main.rs 81-83: the Encryptor the consumer will use
EncryptorNew(p) ==
    /\ instances[p].pc = "encryptor_new"
    /\ EncryptorNewInto(p, "encryptor", "cleanup_old_items")
    /\ UNCHANGED programVars

\* main.rs 88-91
StartupCleanup(p) ==
    /\ instances[p].pc = "cleanup_old_items"
    /\ instances' = [instances EXCEPT ![p].pc = "encryptor_for_ui",
                                      ![p].store_ops = @ \cup {"cleanup_old_items"}]
    /\ UNCHANGED << data_dir, programVars >>

\* main.rs 236-242: the UI's connection and the UI's Encryptor
EncryptorForUi(p) ==
    /\ instances[p].pc = "encryptor_for_ui"
    /\ EncryptorNewInto(p, "encryptor_for_ui", "running")
    /\ UNCHANGED programVars

\* The consumer of a running process stores an item
ProcessInserts(p) ==
    /\ instances[p].pc = "running"
    /\ "store_item" \notin instances[p].store_ops
    /\ instances' = [instances EXCEPT ![p].store_ops = @ \cup {"store_item"}]
    /\ UNCHANGED << data_dir, programVars >>

\* The process ends at any point after its start: Quit, a panic, a signal
ProcessExit(p) ==
    /\ instances[p].pc \notin StoppedPcs
    /\ Ended(p, "exited")
    /\ UNCHANGED programVars

NextProcesses ==
    \/ \E p \in Procs : ProcessStart(p)
    \/ \E p \in Procs : AcquireInstanceLock(p)
    \/ \E p \in Procs : DatabaseNew(p)
    \/ \E p \in Procs : StartupPurge(p)
    \/ \E p \in Procs : EncryptorNew(p)
    \/ \E p \in Procs : StartupCleanup(p)
    \/ \E p \in Procs : EncryptorForUi(p)
    \/ \E p \in Procs : ProcessInserts(p)
    \/ \E p \in Procs : ProcessExit(p)

SpecProcesses == Init /\ [][NextProcesses]_vars

\* The positions of main at which the process has clipboard.db open
StoreOpenPcs ==
    {"purge_deleted_items", "encryptor_new", "cleanup_old_items",
     "encryptor_for_ui", "running"}

MaxCalls == 3

\* Payloads handed to encrypt: none, one byte, a credential
Plaintexts == { << >>, AsBytes(<< "a" >>), AsBytes(ApiKey) }

\* A byte that differs from b in one bit
Flip(b) == [flipped |-> b]

\* The inputs handed to decrypt: what encrypt returned so far, as returned,
\* with one byte changed (in the nonce, the ciphertext or the tag), or cut
\* short
DecryptInputs ==
    LET returned == { c.result.envelope : c \in { d \in calls : d.fn = "encrypt" } }
    IN returned
       \cup { [e EXCEPT ![i] = Flip(e[i])] :
                 e \in returned, i \in {1, NONCE_SIZE + 1, NONCE_SIZE + TAG_SIZE} }
       \cup { SubSeq(e, 1, n) : e \in returned, n \in {0, NONCE_SIZE - 1, NONCE_SIZE} }


\* encryptor.encrypt(plaintext)
EncryptCall ==
    /\ Cardinality(calls) < MaxCalls
    /\ \E plaintext \in Plaintexts, nonce \in Nonces :
          calls' = calls \cup
             { [seq |-> Cardinality(calls) + 1, fn |-> "encrypt",
                plaintext |-> plaintext, nonce |-> nonce,
                result |-> [ok |-> TRUE,
                            envelope |-> Encrypt(MasterKey, nonce, plaintext)]] }
    /\ UNCHANGED << pasteboard, monitor, channel, consumer, storeVars, now,
                    faults, emitted, received, plaintexts, main_thread,
                    instances, data_dir >>
    /\ UNCHANGED uiVars

\* encryptor.decrypt(encrypted)
DecryptCall ==
    /\ Cardinality(calls) < MaxCalls
    /\ \E encrypted \in DecryptInputs :
          calls' = calls \cup
             { [seq |-> Cardinality(calls) + 1, fn |-> "decrypt",
                encrypted |-> encrypted,
                result |-> Decrypt(MasterKey, encrypted)] }
    /\ UNCHANGED << pasteboard, monitor, channel, consumer, storeVars, now,
                    faults, emitted, received, plaintexts, main_thread,
                    instances, data_dir >>
    /\ UNCHANGED uiVars

NextEncryptor == EncryptCall \/ DecryptCall

SpecEncryptor == Init /\ [][NextEncryptor]_vars

EncryptCalls == { c \in calls : c.fn = "encrypt" }
DecryptCalls == { c \in calls : c.fn = "decrypt" }

\* C25: decrypt of what encrypt returned for a plaintext p, under the same
\* key, returns Ok(p), for every plaintext p.
C25_DecryptInvertsEncrypt ==
    \A e \in EncryptCalls, d \in DecryptCalls :
        d.encrypted = e.result.envelope
        => d.result = [ok |-> TRUE, plaintext |-> e.plaintext]

\* The envelope of a credential was decrypted
C25_Witness ==
    \E e \in EncryptCalls, d \in DecryptCalls :
        /\ e.plaintext = AsBytes(ApiKey)
        /\ d.encrypted = e.result.envelope
        /\ d.result.ok
        /\ d.result.plaintext = AsBytes(ApiKey)

ProducibleEnvelopes ==
    { Encrypt(MasterKey, nonce, plaintext) : nonce \in Nonces, plaintext \in Plaintexts }

\* C27: decrypt returns the error "too short" for every input shorter than
\* NONCE_SIZE bytes, and an error, never a plaintext, for every input that
\* is not an envelope encrypt produces under the key.
C27_DecryptRejects ==
    \A d \in DecryptCalls :
        /\ Len(d.encrypted) < NONCE_SIZE
              => d.result = [ok |-> FALSE, err |-> "Invalid encrypted data: too short"]
        /\ d.encrypted \notin ProducibleEnvelopes
              => /\ ~d.result.ok
                 /\ Len(d.encrypted) >= NONCE_SIZE => d.result.err = "Decryption failed"

\* decrypt was called on an input that is too short and on an envelope with
\* one byte changed
C27_Witness ==
    /\ \E d \in DecryptCalls :
          Len(d.encrypted) = NONCE_SIZE - 1 /\ ~d.result.ok
    /\ \E d \in DecryptCalls : \E e \in EncryptCalls :
          /\ Len(d.encrypted) = Len(e.result.envelope)
          /\ d.encrypted # e.result.envelope
          /\ Len(e.plaintext) > 0
          /\ ~d.result.ok

\* The keys of the Encryptors that are alive
LiveKeys ==
    { instances[p].encryptor[1] : p \in { q \in Procs : instances[q].encryptor # None } }
    \cup { instances[p].encryptor_for_ui[1] :
              p \in { q \in Procs : instances[q].encryptor_for_ui # None } }

\* C28: every Encryptor constructed on the key file, in whichever process
\* and run, has the key of the file, so that what one seals any other opens;
\* constructing an Encryptor leaves an existing key file as it is, and
\* fails when the file is not exactly KEY_SIZE bytes long.
C28_KeyFixedOnceCreated ==
    /\ [](/\ Cardinality(data_dir.keys_loaded) <= 1
          /\ LiveKeys \subseteq data_dir.keys_loaded
          /\ data_dir.keys_loaded # {} =>
                /\ data_dir.key_file # None
                /\ data_dir.key_file[1].len = KEY_SIZE
                /\ data_dir.keys_loaded = { data_dir.key_file[1].key }
          /\ \A k1, k2 \in data_dir.keys_loaded : \A nonce \in Nonces :
                Decrypt(k2, Encrypt(k1, nonce, AsBytes(ApiKey)))
                   = [ok |-> TRUE, plaintext |-> AsBytes(ApiKey)])
    /\ [][/\ data_dir.key_file # None => data_dir'.key_file = data_dir.key_file
          /\ \A p \in Procs :
                /\ instances[p].pc \in {"encryptor_new", "encryptor_for_ui"}
                /\ instances'[p] # instances[p]
                /\ data_dir.key_file # None
                /\ data_dir.key_file[1].len # KEY_SIZE
                => instances'[p].pc = "exited" /\ data_dir'.keys_loaded = data_dir.keys_loaded]_vars

\* A process runs with both its Encryptors on the key of the file, after
\* another process had constructed its own in an earlier run
C28_Witness ==
    \E p, q \in Procs :
        /\ p # q
        /\ instances[p].pc = "running"
        /\ instances[p].encryptor = instances[p].encryptor_for_ui
        /\ instances[p].encryptor = Some(data_dir.key_file[1].key)
        /\ instances[q].pc = "exited"
        /\ "cleanup_old_items" \in instances[q].store_ops

(***************************************************************************)
(* The classifier called on its own (storage/processor.rs)                 *)
(***************************************************************************)
\* test_url_not_sensitive: an issue link ending in a number
IssueUrl ==
    << "h", "t", "t", "p", "s", ":", "/", "/", "g", "i", "t", "h", "u",
       "b", ".", "c", "o", "m", "/", "u", "s", "e", "r", "/", "r", "e",
       "p", "o", "/", "i", "s", "s", "u", "e", "s", "/", "1", "2", "3" >>

\* test_url_not_sensitive: an address with path and query
QueryUrl ==
    << "h", "t", "t", "p", ":", "/", "/", "e", "x", "a", "m", "p", "l",
       "e", ".", "c", "o", "m", "/", "p", "a", "t", "h", "?", "q", "u",
       "e", "r", "y", "=", "v", "a", "l", "u", "e" >>

\* test_url_not_sensitive: an address with a host only
PlainUrl ==
    << "h", "t", "t", "p", "s", ":", "/", "/", "w", "w", "w", ".", "g",
       "o", "o", "g", "l", "e", ".", "c", "o", "m" >>

\* Two statements separated by a tab, no space in them
TabbedCode ==
    << "a", "=", "1", ";", "\t", "b", "=", "2", ";" >>

\* Three parts separated by two dots, the first beginning with eyJ
JwtLike ==
    << "e", "y", "J", "a", ".", "b", ".", "c" >>

\* The marker of a PEM private key
PemHeader ==
    << "B", "E", "G", "I", "N", " ", "P", "R", "I", "V", "A", "T", "E",
       " ", "K", "E", "Y" >>

\* An assignment to a variable named like a credential
TokenAssignment ==
    << "m", "y", " ", "T", "o", "k", "e", "n", " ", "=", " ", "x" >>

\* Too short for a password
ShortMixed ==
    << "a", "1", "!" >>

\* The texts handed to process_text
ClassifierTexts ==
    { NoteA, ApiKey, IssueUrl, QueryUrl, PlainUrl, TabbedCode, JwtLike,
      PemHeader, TokenAssignment, ShortMixed }

\* DataProcessor::process_text(text, &[])
ProcessTextCall ==
    /\ \E text \in ClassifierTexts :
          /\ \A c \in calls : c.text # text
          /\ calls' = calls \cup
                { [fn |-> "process_text", text |-> text,
                   result |-> process_text(text, << >>)] }
    /\ UNCHANGED << pasteboard, monitor, channel, consumer, storeVars, now,
                    faults, emitted, received, plaintexts, main_thread,
                    instances, data_dir >>
    /\ UNCHANGED uiVars

NextClassifier == ProcessTextCall

SpecClassifier == Init /\ [][NextClassifier]_vars

\* The five rules as the claim states them
ClaimedRule1(text) ==
    /\ ByteLen(text) >= 8
    /\ ByteLen(text) <= 128
    /\ \A i \in 1..Len(text) : ~IsWhitespace(text[i])
    /\ \E i \in 1..Len(text) : IsAsciiDigit(text[i])
    /\ \E i \in 1..Len(text) : text[i] \in SpecialChars
ClaimedRule2(text) ==
    \E k \in 1..Len(sensitive_prefixes) : StartsWith(text, sensitive_prefixes[k])
ClaimedRule3(text) ==
    StartsWith(text, << "e","y","J" >>) /\ CountChar(text, ".") = 2
ClaimedRule4(text) ==
    \/ Contains(text, << "B","E","G","I","N"," ","P","R","I","V","A","T","E"," ","K","E","Y" >>)
    \/ Contains(text, << "B","E","G","I","N"," ","R","S","A"," ","P","R","I","V","A","T","E"," ","K","E","Y" >>)
    \/ Contains(text, << "B","E","G","I","N"," ","O","P","E","N","S","S","H"," ","P","R","I","V","A","T","E"," ","K","E","Y" >>)
ClaimedRule5(text) ==
    /\ \E w \in { << "p","a","s","s","w","o","r","d" >>, << "s","e","c","r","e","t" >>,
                   << "a","p","i","_","k","e","y" >>, << "a","p","i","k","e","y" >>,
                   << "t","o","k","e","n" >> } : Contains(ToLowercase(text), w)
    /\ ContainsChar(text, "=")

\* C29: process_text marks a text as sensitive if and only if at least one
\* of the five rules holds for it, rule (1) asking for no whitespace
\* character of any kind.
C29_SensitiveIffRules ==
    \A c \in calls :
        c.result.is_sensitive
           <=> \/ ClaimedRule1(c.text)
               \/ ClaimedRule2(c.text)
               \/ ClaimedRule3(c.text)
               \/ ClaimedRule4(c.text)
               \/ ClaimedRule5(c.text)

\* Addresses with scheme http or https, a host, a path and an optional query
OrdinaryUrls == { IssueUrl, QueryUrl, PlainUrl }

\* C30: process_text never marks an ordinary URL as sensitive.
C30_UrlNotSensitive ==
    \A c \in calls : c.text \in OrdinaryUrls => ~c.result.is_sensitive

(***************************************************************************)
(* generate_text_preview called on its own (storage/processor.rs)          *)
(***************************************************************************)
\* test_multiline_preview, with blanks around the lines and a CR LF ending
ThreeLines ==
    << " ", "L", "1", " ", "\n", "\n", "\t", "L", "2", "\r", "\n", "\n",
       "\n", "L", "3", "\n" >>

\* test_preview_truncation: 300 one-byte characters
LongAscii == Rep("a", MAX_PREVIEW + 100)

\* Exactly as long as a preview may be, and one character more
FullAscii == Rep("a", MAX_PREVIEW)
OverAscii == Rep("a", MAX_PREVIEW + 1)

\* 150 two-byte characters: 150 characters, 300 bytes
AccentedOnly == Rep("U+00E9", MAX_PREVIEW - 50)

\* Blank characters only
Blank == << " ", "\n", "\t" >>

\* The texts handed to generate_text_preview
PreviewTexts ==
    { NoteA, ThreeLines, LongAscii, FullAscii, OverAscii, AccentedOnly,
      LongAccented, Blank }

\* DataProcessor::generate_text_preview(text)
PreviewCall ==
    /\ \E text \in PreviewTexts :
          /\ \A c \in calls : c.text # text
          /\ calls' = calls \cup
                { [fn |-> "generate_text_preview", text |-> text,
                   result |-> generate_text_preview(text)] }
    /\ UNCHANGED << pasteboard, monitor, channel, consumer, storeVars, now,
                    faults, emitted, received, plaintexts, main_thread,
                    instances, data_dir >>
    /\ UNCHANGED uiVars

NextPreview == PreviewCall

SpecPreview == Init /\ [][NextPreview]_vars

\* C31: generate_text_preview returns normally on every text; the preview
\* is the normalized text when that has at most 200 characters, and its
\* first 200 characters followed by "..." otherwise, so never more than 203
\* characters, multi-byte characters included.
C31_PreviewContract ==
    \A c \in calls :
        LET normalized == CleanedText(c.text) IN
        /\ ~c.result.panic
        /\ c.result.value =
              IF CharCount(normalized) <= MAX_PREVIEW
              THEN normalized
              ELSE SubSeq(normalized, 1, MAX_PREVIEW) \o << ".", ".", "." >>
        /\ CharCount(c.result.value) <= MAX_PREVIEW + 3

(***************************************************************************)
(* Search (storage/search.rs)                                              *)
(***************************************************************************)
\* The places where the characters of pattern are found in choice, in
\* order, each at the first place after the one before; << >> when not all
\* of them are found (from: the place after which to look).
RECURSIVE MatchPositions(_, _, _)
MatchPositions(choice, pattern, from) ==
    IF pattern = << >> THEN << >>
    ELSE IF \E i \in (from + 1)..Len(choice) : choice[i] = Head(pattern)
         THEN LET i == CHOOSE i \in (from + 1)..Len(choice) :
                          /\ choice[i] = Head(pattern)
                          /\ \A j \in (from + 1)..(i - 1) : choice[j] # Head(pattern)
                  rest == MatchPositions(choice, Tail(pattern), i)
              IN IF Len(rest) = Len(pattern) - 1 THEN << i >> \o rest ELSE << >>
         ELSE << >>

RECURSIVE SumSeq(_)
SumSeq(s) == IF s = << >> THEN 0 ELSE Head(s) + SumSeq(Tail(s))

\* SkimMatcherV2::fuzzy_match(choice, pattern) for a pattern without upper
\* case letters: the case of choice is ignored, the pattern matches when its
\* characters occur in choice in order, and the score rewards every matched
\* character, more in a run and at the start of a word, and charges the
\* characters skipped between two matched ones.
fuzzy_match(choice, pattern) ==
    LET c == ToLowercase(choice)
        p == ToLowercase(pattern)
        at == MatchPositions(c, p, 0)
        points(k) ==
            16
            + (IF k > 1 /\ at[k] = at[k - 1] + 1 THEN 8 ELSE 0)
            + (IF at[k] = 1 \/ (at[k] > 1 /\ c[at[k] - 1] = " ") THEN 8 ELSE 0)
            - (IF k > 1 THEN at[k] - at[k - 1] - 1 ELSE 0)
    IN IF Len(at) = Len(p) /\ p # << >>
       THEN Some(SumSeq([k \in 1..Len(p) |-> points(k)]))
       ELSE None

\* The closure of filter_map with no look at the type of an item that has a
\* preview: a mutant
ScoredOneField(item, query) ==
    LET by == IF item.preview_text # None
              THEN fuzzy_match(item.preview_text[1], query)
              ELSE fuzzy_match(item.data_type, query)
    IN IF by # None THEN Some([score |-> by[1], item |-> item]) ELSE None

\* The closure of filter_map in search: the preview first, then the type
Scored(item, query) ==
    LET by_preview == IF item.preview_text # None
                      THEN fuzzy_match(item.preview_text[1], query)
                      ELSE None
        by_type == fuzzy_match(item.data_type, query)
    IN IF by_preview # None THEN Some([score |-> by_preview[1], item |-> item])
       ELSE IF by_type # None THEN Some([score |-> by_type[1], item |-> item])
       ELSE None

\* The comparator of results.sort_by with a older and b newer in a tie: a mutant
OrderedBeforeOldest(a, b) ==
    \/ a.score > b.score
    \/ a.score = b.score /\ a.item.timestamp < b.item.timestamp

\* The comparator of results.sort_by: Ordering::Less for (a, b)
OrderedBefore(a, b) ==
    \/ a.score > b.score
    \/ a.score = b.score /\ a.item.timestamp > b.item.timestamp

\* slice::sort_by, a stable sort: an element goes before the first one it is
\* ordered before, and after every element it compares equal to
RECURSIVE SortBy(_)
SortBy(s) ==
    IF s = << >> THEN << >>
    ELSE LET sorted == SortBy(SubSeq(s, 1, Len(s) - 1))
             x == s[Len(s)]
             n == Cardinality({ i \in 1..Len(sorted) : ~OrderedBefore(x, sorted[i]) })
         IN SubSeq(sorted, 1, n) \o << x >> \o SubSeq(sorted, n + 1, Len(sorted))

\* SearchEngine::search
search(items, query) ==
    IF query = << >>
    THEN [i \in 1..Len(items) |-> [score |-> 0, item |-> items[i]]]
    ELSE LET scored == [i \in 1..Len(items) |-> Scored(items[i], query)]
             found == SelectSeq(scored, LAMBDA r : r # None)
         IN SortBy([i \in 1..Len(found) |-> found[i][1]])

TestItem == << "t","e","s","t"," ","i","t","e","m" >>
\* test_sorted_by_relevance: the letters of the query with blanks between them
Scattered == << "t"," ","e"," ","s"," ","t" >>
Preview == << "P","r","e","v","i","e","w" >>
TypeText == << "t","e","x","t" >>
TypeImage == << "i","m","a","g","e" >>

\* create_test_item(id, preview, data_type, timestamp); item 4 has no preview
SearchItem(id, preview, data_type, timestamp) ==
    [id |-> id, timestamp |-> timestamp, data_type |-> data_type,
     preview_text |-> preview]

SearchItems ==
    { SearchItem(1, Some(TestItem), TypeText, 300),
      SearchItem(2, Some(TestItem), TypeText, 100),
      SearchItem(3, Some(Preview), TypeImage, 200),
      SearchItem(4, None, TypeImage, 200),
      SearchItem(5, Some(Scattered), TypeText, 100) }

MaxItems == 3

\* The lists of at most MaxItems different items
ItemLists ==
    { s \in UNION { [1..n -> SearchItems] : n \in 0..MaxItems } :
        \A i, j \in 1..Len(s) : i # j => s[i] # s[j] }

Queries == { << >>, << "t","e","s","t" >>, TypeImage }

\* engine.search(&items, query), once
SearchCall ==
    /\ calls = {}
    /\ \E items \in ItemLists, query \in Queries :
          calls' = { [fn |-> "search", items |-> items, query |-> query,
                      result |-> search(items, query)] }
    /\ UNCHANGED << pasteboard, monitor, channel, consumer, storeVars, now,
                    faults, emitted, received, plaintexts, main_thread,
                    instances, data_dir >>
    /\ UNCHANGED uiVars

NextSearch == SearchCall

SpecSearch == Init /\ [][NextSearch]_vars

\* C32: for a non-empty query the result is sorted by score descending, and
\* of two results with the same score the newer one comes first; for the
\* empty query the result is every input item with score 0, in input order.
C32_SortedByScoreThenNewest ==
    \A c \in calls :
        IF c.query = << >>
        THEN /\ Len(c.result) = Len(c.items)
             /\ \A i \in 1..Len(c.items) :
                   c.result[i] = [score |-> 0, item |-> c.items[i]]
        ELSE \A i, j \in 1..Len(c.result) :
                i < j =>
                   /\ c.result[i].score >= c.result[j].score
                   /\ c.result[i].score = c.result[j].score
                         => c.result[i].item.timestamp >= c.result[j].item.timestamp

\* A search that found an older and a newer item with the same score, given
\* the older one first, together with an item of a different score
C32_Witness ==
    \E c \in calls :
        /\ c.query # << >>
        /\ Len(c.result) = 3
        /\ \E i, j \in 1..Len(c.items) :
              /\ i < j
              /\ c.items[i].timestamp < c.items[j].timestamp
              /\ c.result[1].item = c.items[j]
              /\ c.result[2].item = c.items[i]
              /\ c.result[1].score = c.result[2].score
        /\ c.result[3].score < c.result[2].score

\* The items and the scores of a result
ResultItems(c) == { c.result[i].item : i \in 1..Len(c.result) }
InputItems(c) == { c.items[i] : i \in 1..Len(c.items) }

\* C33 as stated: for a non-empty query an item is in the result exactly
\* when the query matches its preview_text, if it has one, and its data_type
\* if it has none, and its score is the score of that one field.
C33_OneFieldDecides ==
    \A c \in calls :
        c.query # << >> =>
            LET field(item) == IF item.preview_text # None
                               THEN item.preview_text[1]
                               ELSE item.data_type
            IN /\ ResultItems(c) =
                     { item \in InputItems(c) : fuzzy_match(field(item), c.query) # None }
               /\ \A i \in 1..Len(c.result) :
                     Some(c.result[i].score) = fuzzy_match(field(c.result[i].item), c.query)

\* C33, amended: for a non-empty query an item is in the result exactly when
\* the query matches its preview_text or its data_type, once; its score is
\* that of preview_text when it has one that matches, and that of data_type
\* otherwise.
C33_PreviewThenType ==
    \A c \in calls :
        c.query # << >> =>
            LET previewMatches(item) ==
                    /\ item.preview_text # None
                    /\ fuzzy_match(item.preview_text[1], c.query) # None
                typeMatches(item) == fuzzy_match(item.data_type, c.query) # None
            IN /\ ResultItems(c) =
                     { item \in InputItems(c) : previewMatches(item) \/ typeMatches(item) }
               /\ Len(c.result) = Cardinality(ResultItems(c))
               /\ \A i \in 1..Len(c.result) :
                     LET r == c.result[i] IN
                     Some(r.score) =
                        IF previewMatches(r.item)
                        THEN fuzzy_match(r.item.preview_text[1], c.query)
                        ELSE fuzzy_match(r.item.data_type, c.query)

\* A search for "image" over an item of type image whose preview does not
\* match, an item of type image without preview and an item of another type
C33_Witness ==
    \E c \in calls :
        /\ c.query = TypeImage
        /\ Len(c.items) = 3
        /\ Len(c.result) = 2
        /\ \E r \in ResultItems(c) :
              r.preview_text # None /\ fuzzy_match(r.preview_text[1], c.query) = None
        /\ \E r \in ResultItems(c) : r.preview_text = None

\* A statement of remove_duplicates runs, or the call returns
InRemoveDuplicates ==
    /\ consumer.pc \in { "remove_duplicates", "dedup_delete_item", "dedup_delete_blob" }
    /\ consumer' # consumer

\* C34: remove_duplicates with a null preview_text returns (0, 0) and changes
\* nothing; with a preview_text it removes only live rows with that
\* preview_text and data_type and their blobs, leaves the trash alone, and
\* the number it returns is the number of rows it removed, with the highest
\* copy_count among them: every row it counts is a row its DELETE removed.
C34_DedupeFrameAndCount ==
    [][InRemoveDuplicates =>
          LET pv == consumer.processed.preview_text
              dt == consumer.processed.data_type
              gone == clipboard_items \ clipboard_items'
              counted == consumer.matches[consumer.next]
          IN
          /\ deleted_items' = deleted_items
          /\ deleted_data' = deleted_data
          /\ clipboard_items' \subseteq clipboard_items
          /\ clipboard_data' \subseteq clipboard_data
          /\ pv = None =>
                /\ UNCHANGED storeVars
                /\ consumer'.dedup_result = "ok"
                /\ consumer'.prev_copy_count = 0
          /\ pv # None =>
                /\ \A r \in gone : Matches(r, pv[1], dt)
                /\ \A b \in clipboard_data \ clipboard_data' :
                      \E i \in 1..Len(consumer.matches) :
                          consumer.matches[i].blob_id = b.id
          /\ consumer.pc = "dedup_delete_item" /\ consumer'.pc = "dedup_delete_blob" =>
                /\ Cardinality(gone) = 1
                /\ \A r \in gone : r.id = counted.id /\ r.copy_count = counted.copy_count
          /\ consumer.pc = "remove_duplicates" /\ consumer'.dedup_result = "ok" =>
                consumer'.prev_copy_count = 0
    ]_vars

(***************************************************************************)
(* Opening the store again and again (Database::new)                       *)
(***************************************************************************)
MaxOpens == 3

\* What an earlier release without copy_count left in the directory: one
\* text item with its blob, and possibly a retention period set by hand
LegacyRow ==
    [NewItemRow(1, 0, [NoProcessed EXCEPT !.data_type = "text",
                                          !.blob = AsBytes(NoteA),
                                          !.preview_text = Some(NoteA)],
                FALSE, 1, NoCopyCount)
       EXCEPT !.metadata = None]

LegacyInstall ==
    /\ data_dir.clipboard_db = NoDatabase
    /\ clipboard_items = {} /\ clipboard_data = {} /\ calls = {}
    /\ \E retention \in { None, Some(<< "3", "0" >>) } :
          data_dir' = [data_dir EXCEPT !.clipboard_db =
                          [exists |-> TRUE, copy_count_column |-> FALSE,
                           config |-> [NoDatabase.config EXCEPT
                                          !["retention_days"] = retention]]]
    /\ clipboard_items' = { LegacyRow }
    /\ clipboard_data' = { [id |-> 1, data |-> AsBytes(NoteA)] }
    /\ sqlite_sequence' = [sqlite_sequence EXCEPT !.clipboard_items = 1,
                                                  !.clipboard_data = 1]
    /\ UNCHANGED << pasteboard, monitor, channel, consumer, deleted_items,
                    deleted_data, now, faults, emitted, received, plaintexts,
                    main_thread, instances, calls >>
    /\ UNCHANGED uiVars

\* Database::new(db_path): Connection::open, then initialize_schema, which
\* stops at the first statement that fails; the ALTER's error is ignored
OpenStore ==
    /\ Cardinality(calls) < MaxOpens
    /\ \E n \in { 0, 2, 3, 4, Len(SchemaStatements) } :
          LET db == data_dir.clipboard_db
              ok == n = Len(SchemaStatements)
          IN
          /\ ~ok => MayFail
          /\ faults' = IF ok THEN faults ELSE faults + 1
          /\ data_dir' = [data_dir EXCEPT !.clipboard_db = initialize_schema(db, n)]
          /\ clipboard_items' =
                IF n >= 2 /\ ~db.copy_count_column
                THEN AddCopyCountColumn(clipboard_items)
                ELSE clipboard_items
          /\ calls' = calls \cup
                { [fn |-> "Database::new", n |-> Cardinality(calls) + 1, ok |-> ok] }
    /\ UNCHANGED << pasteboard, monitor, channel, consumer, clipboard_data,
                    deleted_items, deleted_data, sqlite_sequence, now, emitted,
                    received, plaintexts, main_thread, instances >>
    /\ UNCHANGED uiVars

\* main goes on to the monitor and the UI once Database::new returned Ok
StoreOpened == \E c \in calls : c.ok

NextOpen ==
    \/ LegacyInstall
    \/ OpenStore
    \/ StoreOpened /\ NextImages
    \/ StoreOpened /\ UiSoftDeleteAll

SpecOpen == Init /\ [][NextOpen]_vars

\* C35: a call of Database::new leaves every stored item, blob and trash
\* row as it was, the copy_count of every row that has one included, and
\* leaves every tunable of the config table that has a value at that value;
\* a call that succeeds writes the defaults 7 and 500 where there was none.
C35_OpenKeepsData ==
    [][calls' # calls =>
          LET db == data_dir.clipboard_db
              after == data_dir'.clipboard_db
              rest(r) == [r EXCEPT !.copy_count = 1]
          IN
          /\ clipboard_data' = clipboard_data
          /\ deleted_items' = deleted_items
          /\ deleted_data' = deleted_data
          /\ sqlite_sequence' = sqlite_sequence
          /\ \A r \in clipboard_items : r.copy_count # NoCopyCount => r \in clipboard_items'
          /\ { rest(r) : r \in clipboard_items' } = { rest(r) : r \in clipboard_items }
          /\ Cardinality(clipboard_items') = Cardinality(clipboard_items)
          /\ \A k \in { "retention_days", "polling_interval_ms" } :
                db.config[k] # None => after.config[k] = db.config[k]
          /\ (\E c \in calls' \ calls : c.ok) =>
                /\ db.config["retention_days"] = None
                      => after.config["retention_days"] = Some(<< "7" >>)
                /\ db.config["polling_interval_ms"] = None
                      => after.config["polling_interval_ms"] = Some(<< "5", "0", "0" >>)
    ]_vars

\* The store was opened MaxOpens times, the last time with success; it holds
\* the migrated item of the earlier release, an item copied twice, and a
\* retention period of 30 days
C35_Witness ==
    /\ \E c \in calls : c.n = MaxOpens /\ c.ok
    /\ data_dir.clipboard_db.config["retention_days"] = Some(<< "3", "0" >>)
    /\ data_dir.clipboard_db.config["polling_interval_ms"] = Some(<< "5", "0", "0" >>)
    /\ \E r \in clipboard_items : r.copy_count = 2
    /\ \E r \in clipboard_items : r.id = LegacyRow.id /\ r.copy_count = 1

(***************************************************************************)
(* Paste back from the UI (ui/popup.rs, ui/statusbar.rs)                   *)
(***************************************************************************)
PublicHtml == << "p","u","b","l","i","c",".","h","t","m","l" >>
PublicPng == << "p","u","b","l","i","c",".","p","n","g" >>

\* A fragment copied from a browser: markup without html element, offered as
\* public.html and as plain text
Fragment == << "<","b",">","x" >>

FragmentContent ==
    [text |-> Some(Fragment), image |-> None, types |-> << PublicHtml, Utf8PlainText >>]

BlackImage ==
    ImageContent([decodable |-> TRUE, width |-> 2, height |-> 3, pixels |-> << "black" >>])

\* What the applications copy in the runs with paste
PasteContents == { TextContent(ApiKey), FragmentContent, BlackImage }

\* image::load_from_memory on the bytes process_image wrote: the signature,
\* the dimensions (one digit each) and the pixel data
DecodePng(data) ==
    IF Len(data) >= 8 /\ SubSeq(data, 1, 4) = AsBytes(<< "x89", "P", "N", "G" >>)
    THEN [decodable |-> TRUE,
          width |-> CHOOSE n \in 0..9 : DecStr(n) = << data[5].v >>,
          height |-> CHOOSE n \in 0..9 : DecStr(n) = << data[7].v >>,
          pixels |-> [i \in 1..(Len(data) - 7) |-> data[i + 7].v]]
    ELSE [decodable |-> FALSE, width |-> 0, height |-> 0, pixels |-> << >>]

\* pb.setData_forType(data, "public.png")
PngContent(data) ==
    [text |-> None, image |-> Some([data |-> DecodePng(data), uti |-> PublicPng]),
     types |-> << PublicPng >>]

\* Some application copies one of PasteContents
HostCopyForPaste ==
    /\ pasteboard.changeCount < InitialChangeCount + MaxCopies
    /\ \E c \in PasteContents :
          pasteboard' = [changeCount |-> pasteboard.changeCount + 1, content |-> c]
    /\ UNCHANGED << monitor, channel, consumer, storeVars, now, faults,
                    emitted, received, plaintexts >>
    /\ UNCHANGED main_thread
    /\ UNCHANGED osVars

\* The bytes the UI's Encryptor does not open: encryption.key was replaced
\* since the item was sealed, so the UI holds another key than MasterKey
UiKeys(failed) == IF failed THEN Keys \ {MasterKey} ELSE {MasterKey}

\* What a paste handler has done: the item, the state of the store and of
\* the pasteboard it found, and what it wrote
PasteRecord(fn, item, failed, wrote) ==
    [fn |-> fn, item |-> item, decrypt_failed |-> failed, wrote |-> wrote,
     count_items |-> Cardinality(clipboard_items),
     change_count |-> pasteboard.changeCount + 1]

\* pb.clearContents() and the write that follows it
PasteboardWrite(content) ==
    pasteboard' = [changeCount |-> pasteboard.changeCount + 1, content |-> content]

\* PopupWindow::paste_and_close on the selected item of the list
PopupPaste ==
    /\ pasteboard.changeCount < InitialChangeCount + MaxCopies
    /\ \E item \in clipboard_items, failed \in BOOLEAN :
          /\ get_blob(item.data_blob_id) # {}
          /\ failed => item.is_encrypted /\ MayFail
          /\ faults' = IF failed THEN faults + 1 ELSE faults
          /\ \E key \in UiKeys(failed), b \in get_blob(item.data_blob_id) :
                LET blob == b.data
                    opened == Decrypt(key, blob)
                    data == IF item.is_encrypted
                            THEN (IF opened.ok THEN opened.plaintext ELSE blob)
                            ELSE blob
                    content == IF item.data_type = "image"
                               THEN PngContent(data)
                               ELSE TextContent(FromUtf8Lossy(data))
                IN /\ PasteboardWrite(content)
                   /\ calls' = calls \cup
                         { PasteRecord("paste_and_close", item, failed, Some(content)) }
    /\ UNCHANGED << monitor, channel, consumer, storeVars, now, emitted,
                    received, plaintexts, main_thread, instances, data_dir >>
    /\ UNCHANGED uiVars

\* MenuTarget::paste_item for a menu entry whose item is still live
MenuPaste ==
    /\ pasteboard.changeCount < InitialChangeCount + MaxCopies
    /\ \E item \in clipboard_items, failed \in BOOLEAN :
          /\ get_blob(item.data_blob_id) # {}
          /\ failed => item.is_encrypted /\ MayFail
          /\ faults' = IF failed THEN faults + 1 ELSE faults
          /\ \E key \in UiKeys(failed), b \in get_blob(item.data_blob_id) :
                LET blob == b.data
                    opened == Decrypt(key, blob)
                IN IF item.is_encrypted /\ ~opened.ok
                   THEN /\ UNCHANGED pasteboard
                        /\ calls' = calls \cup
                              { PasteRecord("paste_item", item, failed, None) }
                   ELSE LET data == IF item.is_encrypted THEN opened.plaintext ELSE blob
                            content == TextContent(FromUtf8Lossy(data))
                        IN /\ PasteboardWrite(content)
                           /\ calls' = calls \cup
                                 { PasteRecord("paste_item", item, failed, Some(content)) }
    /\ UNCHANGED << monitor, channel, consumer, storeVars, now, emitted,
                    received, plaintexts, main_thread, instances, data_dir >>
    /\ UNCHANGED uiVars

NextPaste ==
    \/ HostCopyForPaste
    \/ MonitorTick
    \/ ConsumerRecv
    \/ ConsumerEncrypt
    \/ ConsumerDedupSelect
    \/ ConsumerDedupDeleteItem
    \/ ConsumerDedupDeleteBlob
    \/ ConsumerStoreBlob
    \/ ConsumerStoreItem
    \/ PopupPaste
    \/ MenuPaste

SpecPaste == Init /\ [][NextPaste]_vars

\* C36: a paste of an encrypted item whose decryption fails writes nothing
\* to the pasteboard, from the popup and from the menu alike, and no paste
\* removes or changes a stored item.
C36_FailedDecryptPastesNothing ==
    /\ [](\A c \in calls : c.decrypt_failed => c.wrote = None)
    /\ [][calls' # calls =>
             /\ UNCHANGED storeVars
             /\ \A c \in calls' \ calls :
                   c.decrypt_failed => pasteboard' = pasteboard]_vars

\* The change a paste made has gone through the pipeline and nothing else is
\* pending: the monitor has seen it, the consumer has received it and is
\* back at rx.recv
PasteProcessed(c) ==
    /\ pasteboard.changeCount = c.change_count
    /\ monitor.last_change_count = c.change_count
    /\ channel.queue = << >>
    /\ consumer.pc = "recv"
    /\ \E i \in 1..Len(received) : received[i] = c.change_count

SameEntry(r, item) ==
    r.data_type = item.data_type /\ r.preview_text = item.preview_text

\* C39: once the change made by a paste from the UI has been processed, the
\* store holds as many live items as before the paste, and the pasted item
\* is one live row of the same data_type and preview_text whose copy_count
\* is one higher.
C39_PasteDoesNotGrowHistory ==
    \A c \in calls :
        ( /\ c.fn \in { "paste_and_close", "paste_item" }
          /\ c.wrote # None
          /\ faults = 0
          /\ PasteProcessed(c) )
        => /\ Cardinality(clipboard_items) = c.count_items
           /\ Cardinality({ r \in clipboard_items : SameEntry(r, c.item) }) = 1
           /\ \A r \in clipboard_items :
                 SameEntry(r, c.item) => r.copy_count = c.item.copy_count + 1

(***************************************************************************)
(* ClipboardHistory (clipboard/history.rs)                                 *)
(***************************************************************************)
MaxCapacity == 2

\* ClipboardHistory::determine_type
determine_type(types) ==
    LET lower(i) == ToLowercase(types[i])
        image(i) == \/ Contains(lower(i), << "i","m","a","g","e" >>)
                    \/ Contains(lower(i), << "p","n","g" >>)
                    \/ Contains(lower(i), << "t","i","f","f" >>)
        file(i) == Contains(lower(i), << "f","i","l","e" >>)
        first == CHOOSE i \in 1..Len(types) :
                    (image(i) \/ file(i)) /\ \A j \in 1..(i - 1) : ~(image(j) \/ file(j))
    IN IF \E i \in 1..Len(types) : image(i) \/ file(i)
       THEN (IF image(first) THEN "image" ELSE "file")
       ELSE "text"

\* Vec::truncate
Truncate(s, n) == IF Len(s) > n THEN SubSeq(s, 1, n) ELSE s

\* add with the new item pushed at the end and the front cut off
add_at_end(items, max_items, change, content) ==
    IF content = None THEN items
    ELSE LET item == [content |-> content[1], timestamp |-> change.timestamp,
                      data_type |-> determine_type(change.types)]
         IN IF items # << >> /\ items[1].content = item.content
            THEN items
            ELSE Truncate(Append(items, item), max_items)

\* ClipboardHistory::add, on the items held: the items held afterwards
add(items, max_items, change, content) ==
    IF content = None THEN items
    ELSE LET item == [content |-> content[1], timestamp |-> change.timestamp,
                      data_type |-> determine_type(change.types)]
         IN IF items # << >> /\ items[1].content = item.content
            THEN items
            ELSE Truncate(<< item >> \o items, max_items)

\* The ClipboardChange values handed to add: text, a picture, a file
HistoryChanges ==
    { [change_count |-> 1, types |-> << t >>, timestamp |-> 0]
        : t \in { Utf8PlainText, PublicTiff, PublicFileUrl } }

HistoryContents == { None, Some(NoteA), Some(NoteB), Some(ApiKey) }

\* ClipboardHistory::new(max_items)
HistoryNew ==
    /\ history = None
    /\ \E n \in 0..MaxCapacity : history' = Some([items |-> << >>, max_items |-> n])
    /\ UNCHANGED << pasteboard, monitor, channel, consumer, storeVars, now,
                    faults, emitted, received, plaintexts, main_thread,
                    instances, data_dir, calls, popup >>

\* history.add(&change, content); calls keeps the last call and the items
\* it found
HistoryAdd ==
    /\ history # None
    /\ \E change \in HistoryChanges, content \in HistoryContents :
          /\ history' = Some([history[1] EXCEPT
                                !.items = add(@, history[1].max_items, change, content)])
          /\ calls' = { [fn |-> "add", change |-> change, content |-> content,
                         before |-> history[1].items] }
    /\ UNCHANGED << pasteboard, monitor, channel, consumer, storeVars, now,
                    faults, emitted, received, plaintexts, main_thread,
                    instances, data_dir, popup >>

\* history.clear()
HistoryClear ==
    /\ history # None
    /\ history' = Some([history[1] EXCEPT !.items = << >>])
    /\ calls' = { [fn |-> "clear", before |-> history[1].items] }
    /\ UNCHANGED << pasteboard, monitor, channel, consumer, storeVars, now,
                    faults, emitted, received, plaintexts, main_thread,
                    instances, data_dir, popup >>

NextHistory ==
    \/ HistoryNew
    \/ HistoryAdd
    \/ HistoryClear

SpecHistory == Init /\ [][NextHistory]_vars

\* C37: a ClipboardHistory never holds more than max_items items; after an
\* add with no content, or with the content of the newest item, it holds
\* what it held; after any other add the new item is first, the items held
\* before follow in their order, and the oldest is gone when there were
\* max_items already; after clear it is empty.
C37_HistoryBounded ==
    history # None =>
        LET items == history[1].items
            n == history[1].max_items
        IN
        /\ Len(items) <= n
        /\ \A c \in calls :
              IF c.fn = "clear" THEN items = << >>
              ELSE IF c.content = None THEN items = c.before
              ELSE IF c.before # << >> /\ c.before[1].content = c.content[1]
                   THEN items = c.before
              ELSE /\ Len(items) = IF Len(c.before) < n THEN Len(c.before) + 1 ELSE n
                   /\ n > 0 => items[1].content = c.content[1]
                   /\ \A i \in 2..Len(items) : items[i] = c.before[i - 1]

\* A full history of two or more items took a new one and lost its oldest
C37_Witness ==
    /\ history # None
    /\ \E c \in calls :
          /\ c.fn = "add"
          /\ c.content # None
          /\ Len(c.before) = history[1].max_items
          /\ Len(c.before) >= 2
          /\ history[1].items[1].content = c.content[1]
          /\ history[1].items[1].content # c.before[1].content
          /\ history[1].items[Len(c.before)] = c.before[Len(c.before) - 1]

(***************************************************************************)
(* Host writes against what the consumer stores                            *)
(***************************************************************************)
\* An application copies a text; calls keeps every write of the host
HostCopyLogged ==
    /\ pasteboard.changeCount < InitialChangeCount + MaxCopies
    /\ \E c \in { TextContent(NoteA), TextContent(NoteB) } :
          /\ pasteboard' = [changeCount |-> pasteboard.changeCount + 1, content |-> c]
          /\ calls' = calls \cup
                { [fn |-> "host_write", change_count |-> pasteboard.changeCount + 1,
                   content |-> c] }
    /\ UNCHANGED << monitor, channel, consumer, storeVars, now, faults,
                    emitted, received, plaintexts, main_thread, instances,
                    data_dir >>
    /\ UNCHANGED uiVars

NextWrites ==
    \/ HostCopyLogged
    \/ MonitorTick
    \/ ConsumerRecv
    \/ ConsumerEncrypt
    \/ ConsumerDedupSelect
    \/ ConsumerDedupDeleteItem
    \/ ConsumerDedupDeleteBlob
    \/ ConsumerStoreBlob
    \/ ConsumerStoreItem

SpecWrites == Init /\ [][NextWrites]_vars

\* The (data_type, preview_text) the classifier gives a content of the host
ClassOf(content) ==
    LET img == get_image(content)
        txt == get_string(content)
        r == IF img # None THEN process_image(img[1][1], img[1][2])
             ELSE process_text(txt[1], content.types)
    IN << r.data_type, r.preview_text >>

\* C38: the copy_count of a live item is at most the number of writes of the
\* host whose content classifies to the item's data_type and preview_text.
C38_CountedOncePerWrite ==
    \A r \in clipboard_items :
        r.copy_count <=
           Cardinality({ c \in calls : /\ c.fn = "host_write"
                                       /\ ClassOf(c.content) = << r.data_type, r.preview_text >> })

(***************************************************************************)
(* The popup's list and selection (ui/popup.rs)                            *)
(***************************************************************************)
\* load_items asks for the 20 most recent items
PopupLimit == 20

\* Some application copies a short note
HostCopyNote ==
    /\ pasteboard.changeCount < InitialChangeCount + MaxCopies
    /\ \E c \in { TextContent(NoteA), TextContent(NoteB) } :
          pasteboard' = [changeCount |-> pasteboard.changeCount + 1, content |-> c]
    /\ UNCHANGED << monitor, channel, consumer, storeVars, now, faults,
                    emitted, received, plaintexts >>
    /\ UNCHANGED main_thread
    /\ UNCHANGED osVars

\* load_items without the clamp of the index
load_items_unclamped(p, reset_selection, result) ==
    IF result = None THEN p
    ELSE [p EXCEPT !.items = result[1],
                   !.selected_index = IF reset_selection THEN 0 ELSE @]

\* PopupWindow::load_items; result is what get_recent_items returned, None
\* for Err
load_items(p, reset_selection, result) ==
    IF result = None THEN p
    ELSE LET items == result[1]
             idx == IF reset_selection THEN 0
                    ELSE IF p.selected_index >= Len(items)
                         THEN (IF items = << >> THEN 0 ELSE Len(items) - 1)
                         ELSE p.selected_index
         IN [p EXCEPT !.items = items, !.selected_index = idx]

\* PopupWindow::move_selection_down
move_selection_down(p) ==
    LET items_len == Len(p.items)
    IN IF items_len > 0
       THEN [p EXCEPT !.selected_index = (@ + 1) % items_len]
       ELSE p

\* PopupWindow::move_selection_up
move_selection_up(p) ==
    LET items_len == Len(p.items)
    IN IF items_len > 0
       THEN [p EXCEPT !.selected_index = IF @ = 0 THEN items_len - 1 ELSE @ - 1]
       ELSE p

\* The last call on the popup: what it was and the state it found
PopupCall(fn) == { [fn |-> fn, before |-> popup] }

\* db.get_recent_items(20) as load_items sees it: a list, or Err
LoadResults ==
    { Some(items) : items \in get_recent_items(PopupLimit) }
       \cup (IF MayFail THEN { None } ELSE {})

\* PopupWindow::toggle while the window is hidden: show
PopupShow ==
    /\ ~popup.visible
    /\ \E result \in LoadResults :
          /\ popup' = [load_items(popup, TRUE, result) EXCEPT !.visible = TRUE]
          /\ faults' = IF result = None THEN faults + 1 ELSE faults
    /\ calls' = PopupCall("show")
    /\ UNCHANGED << pasteboard, monitor, channel, consumer, storeVars, now,
                    emitted, received, plaintexts, main_thread, instances,
                    data_dir, history >>

\* The closure the auto-refresh thread queues every second while the popup
\* is open
PopupAutoRefresh ==
    /\ popup.visible
    /\ \E result \in LoadResults :
          /\ popup' = load_items(popup, FALSE, result)
          /\ faults' = IF result = None THEN faults + 1 ELSE faults
    /\ calls' = PopupCall("load_items")
    /\ UNCHANGED << pasteboard, monitor, channel, consumer, storeVars, now,
                    emitted, received, plaintexts, main_thread, instances,
                    data_dir, history >>

\* key_down: arrow down or j
MoveSelectionDown ==
    /\ popup.visible
    /\ popup' = move_selection_down(popup)
    /\ calls' = PopupCall("move_selection_down")
    /\ UNCHANGED << pasteboard, monitor, channel, consumer, storeVars, now,
                    faults, emitted, received, plaintexts, main_thread,
                    instances, data_dir, history >>

\* key_down: arrow up or k
MoveSelectionUp ==
    /\ popup.visible
    /\ popup' = move_selection_up(popup)
    /\ calls' = PopupCall("move_selection_up")
    /\ UNCHANGED << pasteboard, monitor, channel, consumer, storeVars, now,
                    faults, emitted, received, plaintexts, main_thread,
                    instances, data_dir, history >>

\* PopupWindow::hide (escape, or toggle while the window is shown)
PopupHide ==
    /\ popup.visible
    /\ popup' = [popup EXCEPT !.visible = FALSE]
    /\ calls' = PopupCall("hide")
    /\ UNCHANGED << pasteboard, monitor, channel, consumer, storeVars, now,
                    faults, emitted, received, plaintexts, main_thread,
                    instances, data_dir, history >>

NextPopup ==
    \/ HostCopyNote
    \/ MonitorTick
    \/ ConsumerRecv
    \/ ConsumerEncrypt
    \/ ConsumerDedupSelect
    \/ ConsumerDedupDeleteItem
    \/ ConsumerDedupDeleteBlob
    \/ ConsumerStoreBlob
    \/ ConsumerStoreItem
    \/ UiSoftDeleteAll
    \/ PopupShow
    \/ PopupAutoRefresh
    \/ MoveSelectionDown
    \/ MoveSelectionUp
    \/ PopupHide

SpecPopup == Init /\ [][NextPopup]_vars

\* C40: the selected index is 0 when the loaded list is empty and below its
\* length otherwise; moving down from the last item selects the first, and
\* moving up from the first selects the last.
C40_SelectionInRange ==
    /\ IF popup.items = << >>
       THEN popup.selected_index = 0
       ELSE popup.selected_index \in 0..(Len(popup.items) - 1)
    /\ \A c \in calls :
          /\ ( /\ c.fn = "move_selection_down"
               /\ c.before.items # << >>
               /\ c.before.selected_index = Len(c.before.items) - 1 )
             => popup.selected_index = 0
          /\ ( /\ c.fn = "move_selection_up"
               /\ c.before.items # << >>
               /\ c.before.selected_index = 0 )
             => popup.selected_index = Len(popup.items) - 1

\* A move down wrapped from the last of two loaded items to the first, after
\* the store behind the list had been emptied
C40_Witness ==
    /\ clipboard_items = {}
    /\ Len(popup.items) = 2
    /\ popup.selected_index = 0
    /\ \E c \in calls :
          c.fn = "move_selection_down" /\ c.before.selected_index = 1

====
